---- MODULE Spec2Model ----
(***************************************************************************)
(* EMA MCP server: the tool ema_info of index.js, the query handlers of    *)
(* ema-api.js it dispatches to and the fetcher they share.  A call         *)
(* validates its parameter bag, issues one GET, filters the returned       *)
(* collection, truncates it and wraps it in an envelope; the tool returns  *)
(* the envelope, or the error, as one text response.                       *)
(*                                                                         *)
(* JavaScript strings are sequences of one-character strings, so that      *)
(* toLowerCase, includes, trim and toString are computed, not assumed.     *)
(* A parameter value carries its JavaScript type: [t |-> type, v |-> val]. *)
(* A parameter bag is a function whose domain is the set of supplied       *)
(* names; a remote record is a function whose domain is the set of fields  *)
(* the upstream provider sent.                                             *)
(***************************************************************************)
EXTENDS Integers, Sequences, FiniteSets, TLC

VARIABLES
  pc,        \* "idle" | "fetching" | "done": the position of the call
  tool,      \* the tool named by the request ("" when idle)
  method,    \* the method named by its arguments ("" when idle)
  params,    \* its parameter bag
  requests,  \* the URLs GET-requested so far by this call
  fetched,   \* what the transport delivered to this call (NoResponse before)
  outcome,   \* what the call returned or threw (NoOutcome before)
  response,  \* what the request handler answered (NoResponse before)
  clock,     \* the wall-clock year, read by new Date()
  calls,     \* the calls in flight when requests are handled concurrently
  earlier,   \* the call that returned last among them (history)
  emaDate,   \* the argument parseEmaDate is called with
  parsed     \* what parseEmaDate returned (NotParsed before)

\* the variables of the call followed alone, and the ones of the calls
\* followed together
callVars == <<pc, tool, method, params, requests, fetched, outcome, response>>
concurrentVars == <<calls, earlier>>
dateVars == <<emaDate, parsed>>
vars == <<pc, tool, method, params, requests, fetched, outcome, response, clock, calls, earlier,
          emaDate, parsed>>

(***************************************************************************)
(* Bounds of the model.                                                    *)
(***************************************************************************)
\* longest collection built from every sequence of sample records
MaxLen == 2
\* most filter parameters supplied in one call (limit comes on top)
MaxFilters == 2
\* length of the one long collection of each dataset (above every default limit)
LongLen == 101
\* the wall-clock year the calls are made in
CurrentYear == 2026
\* most calls in flight at once
MaxCalls == 2

(***************************************************************************)
(* JavaScript strings                                                      *)
(***************************************************************************)
UpperChars == <<"A","B","C","D","E","F","G","H","I","J","K","L","M",
                "N","O","P","Q","R","S","T","U","V","W","X","Y","Z">>
LowerChars == <<"a","b","c","d","e","f","g","h","i","j","k","l","m",
                "n","o","p","q","r","s","t","u","v","w","x","y","z">>

\* the lower-case letter of every upper-case letter
LowerOf ==
  [c \in {UpperChars[i] : i \in DOMAIN UpperChars} |->
     LowerChars[CHOOSE i \in DOMAIN UpperChars : UpperChars[i] = c]]

\* String.prototype.toLowerCase on one character
LowerChar(c) == IF c \in DOMAIN LowerOf THEN LowerOf[c] ELSE c

\* String.prototype.toLowerCase
ToLowerCase(s) == [i \in 1..Len(s) |-> LowerChar(s[i])]

\* String.prototype.includes: t occurs in s as a contiguous substring
Includes(s, t) ==
  \E i \in 0..(Len(s) - Len(t)) : SubSeq(s, i + 1, i + Len(t)) = t

\* the white space trim removes, as far as it occurs in the inputs
WhiteSpace == {" ", "\t", "\n"}

\* String.prototype.trim
RECURSIVE TrimStart(_)
TrimStart(s) ==
  IF s # <<>> /\ Head(s) \in WhiteSpace THEN TrimStart(Tail(s)) ELSE s

RECURSIVE TrimEnd(_)
TrimEnd(s) ==
  IF s # <<>> /\ s[Len(s)] \in WhiteSpace
  THEN TrimEnd(SubSeq(s, 1, Len(s) - 1)) ELSE s

Trim(s) == TrimEnd(TrimStart(s))

Digits == <<"0","1","2","3","4","5","6","7","8","9">>

\* Number.prototype.toString for an integer
RECURSIVE NatToString(_)
NatToString(n) ==
  IF n < 10 THEN <<Digits[n + 1]>>
  ELSE NatToString(n \div 10) \o <<Digits[(n % 10) + 1]>>

NumToString(n) == IF n < 0 THEN <<"-">> \o NatToString(0 - n) ELSE NatToString(n)

(***************************************************************************)
(* JavaScript values of a parameter bag                                    *)
(***************************************************************************)
Num(n) == [t |-> "number", v |-> n]
Str(s) == [t |-> "string", v |-> s]
Bool(b) == [t |-> "boolean", v |-> b]
Null == [t |-> "null"]
Undefined == [t |-> "undefined"]

\* typeof value
TypeOf(val) == val.t

\* truthiness of a value: 0 and "" and false are falsy
TruthyValue(val) ==
  CASE val.t = "number" -> val.v # 0
    [] val.t = "string" -> val.v # <<>>
    [] val.t = "boolean" -> val.v

\* params.name !== undefined
Supplied(p, name) == name \in DOMAIN p

\* the test `if (params.name)`: supplied and truthy
Truthy(p, name) == Supplied(p, name) /\ TruthyValue(p[name])

\* IsTrue that holds for every supplied value (`!== undefined`)
IsTrueWhenSupplied(p, name) == Supplied(p, name)

\* the test `params.name === true`
IsTrue(p, name) == Supplied(p, name) /\ p[name] = Bool(TRUE)

\* IsFalse that never holds: the `else if (params.safety === false)` branch
\* left out
IsFalseIgnored(p, name) == FALSE

\* the test `params.name === false`
IsFalse(p, name) == Supplied(p, name) /\ p[name] = Bool(FALSE)

\* the test `record.field && ...` on a string-valued field of a remote record
HasField(r, f) == f \in DOMAIN r /\ r[f] # <<>>

\* SearchTerm without its toLowerCase: the term as the caller typed it
SearchTermAsTyped(p, name) == p[name].v

\* const searchTerm = params.name.toLowerCase()
SearchTerm(p, name) == ToLowerCase(p[name].v)

\* record.field && record.field.toLowerCase().includes(searchTerm)
FieldIncludes(r, f, searchTerm) ==
  HasField(r, f) /\ Includes(ToLowerCase(r[f]), searchTerm)

\* FieldEqualsIgnoreCase without its `record.field &&`: a record that
\* lacks the field passes
FieldEqualsOrMissing(r, f, val) ==
  ~HasField(r, f) \/ ToLowerCase(r[f]) = ToLowerCase(val)

\* record.field && record.field.toLowerCase() === params.name.toLowerCase()
FieldEqualsIgnoreCase(r, f, val) ==
  HasField(r, f) /\ ToLowerCase(r[f]) = ToLowerCase(val)

\* record.field && record.field.includes(params.year.toString())
FieldIncludesYear(r, f, year) ==
  HasField(r, f) /\ Includes(r[f], NumToString(year))

\* record.field === 'literal'
FieldIs(r, f, literal) == f \in DOMAIN r /\ r[f] = literal

\* Array.prototype.slice(0, limit) for an integer limit (a negative limit
\* counts from the end)
Slice(s, limit) ==
  LET end == IF limit < 0 THEN Len(s) + limit ELSE limit
  IN  IF end <= 0 THEN <<>>
      ELSE IF end >= Len(s) THEN s ELSE SubSeq(s, 1, end)

(***************************************************************************)
(* Remote Fetcher                                                          *)
(***************************************************************************)
EMA_BASE_URL == "https://www.ema.europa.eu/en/documents/report"

\* `${EMA_BASE_URL}/${endpoint}`
generateEmaUrl(endpoint) == <<EMA_BASE_URL, "/", endpoint>>

\* What axios.get delivers.  A response carries the parsed body: an array,
\* an object with or without a data field (itself a parsed value), null, a
\* number, or text that is not JSON.
\* A failure is the error axios rejects with: its code, and whether it
\* carries a response or a request.
ArrayBody(items) == [shape |-> "array", items |-> items]
PlainObjectBody == [shape |-> "object"]
NullBody == [shape |-> "null"]
NumberBody == [shape |-> "number"]
ObjectWithData(value) == [shape |-> "object", data |-> value]
WrappedBody(items) == ObjectWithData(ArrayBody(items))
MalformedTextBody == [shape |-> "malformed"]

Delivered(body) == [ok |-> TRUE, body |-> body]
TimeoutFailure == [ok |-> FALSE, code |-> "ECONNABORTED", response |-> FALSE, request |-> TRUE, message |-> "timeout of 30000ms exceeded"]
HttpFailure(status, statusText) ==
  [ok |-> FALSE, code |-> "ERR_BAD_RESPONSE", response |-> TRUE, request |-> TRUE,
   status |-> status, statusText |-> statusText, message |-> "Request failed"]
NetworkFailure == [ok |-> FALSE, code |-> "ENOTFOUND", response |-> FALSE, request |-> TRUE, message |-> "getaddrinfo ENOTFOUND"]
SetupFailure == [ok |-> FALSE, code |-> "ERR_INVALID_URL", response |-> FALSE, request |-> FALSE, message |-> "Invalid URL"]

\* a value returned or an error thrown
Returned(value) == [threw |-> FALSE, value |-> value]
Thrown(message) == [threw |-> TRUE, message |-> message]

\* RethrowFetchError testing error.request before error.response
RethrowFetchErrorRequestFirst(error) ==
  IF error.code = "ECONNABORTED" THEN Thrown(<<"EMA API request timeout (30s exceeded)">>)
  ELSE IF error.request THEN Thrown(<<"EMA API network error: No response received">>)
  ELSE IF error.response
       THEN Thrown(<<"EMA API HTTP error ", error.status, ": ", error.statusText>>)
  ELSE Thrown(<<"EMA API request failed: ", error.message>>)

\* the catch block shared by both request functions: the error that is
\* thrown again, chosen by code, then response, then request
RethrowFetchError(error) ==
  IF error.code = "ECONNABORTED" THEN Thrown(<<"EMA API request timeout (30s exceeded)">>)
  ELSE IF error.response
       THEN Thrown(<<"EMA API HTTP error ", error.status, ": ", error.statusText>>)
  ELSE IF error.request THEN Thrown(<<"EMA API network error: No response received">>)
  ELSE Thrown(<<"EMA API request failed: ", error.message>>)

\* an Error thrown inside the try block: it has no code, response or request
LocalError(message) ==
  [ok |-> FALSE, code |-> "", response |-> FALSE, request |-> FALSE, message |-> message]

\* makeEmaRequest, after axios.get settled with `delivery`
makeEmaRequest(delivery) ==
  IF ~delivery.ok THEN RethrowFetchError(delivery)
  ELSE IF delivery.body.shape = "malformed"
       THEN RethrowFetchError(LocalError("Unexpected token in JSON"))
  ELSE IF delivery.body.shape # "array"
       THEN RethrowFetchError(LocalError("EMA API returned non-array response"))
  ELSE Returned(delivery.body.items)

\* makeEmaDocumentRequest, after axios.get settled with `delivery`:
\* json.data of null throws a TypeError inside the try block, and
\* `json.data && Array.isArray(json.data)` decides between the return and
\* the throw
makeEmaDocumentRequest(delivery) ==
  IF ~delivery.ok THEN RethrowFetchError(delivery)
  ELSE IF delivery.body.shape = "malformed"
       THEN RethrowFetchError(LocalError("Unexpected token in JSON"))
  ELSE IF delivery.body.shape = "null"
       THEN RethrowFetchError(LocalError("Cannot read properties of null (reading 'data')"))
  ELSE IF /\ delivery.body.shape = "object"
          /\ "data" \in DOMAIN delivery.body
          /\ delivery.body.data.shape = "array"
       THEN Returned(delivery.body.data.items)
  ELSE RethrowFetchError(LocalError("EMA API document response missing data array"))

(***************************************************************************)
(* parseEmaDate                                                            *)
(***************************************************************************)
\* String.prototype.split(' '): the pieces between single spaces, empty
\* pieces included
RECURSIVE Split(_, _)
Split(s, separator) ==
  LET at == {i \in 1..Len(s) : s[i] = separator}
  IN  IF at = {} THEN <<s>>
      ELSE LET i == CHOOSE k \in at : \A j \in at : k <= j
           IN  <<SubSeq(s, 1, i - 1)>> \o Split(SubSeq(s, i + 1, Len(s)), separator)

\* String.prototype.padStart(targetLength, pad) with a pad of one character
RECURSIVE PadStart(_, _, _)
PadStart(s, targetLength, pad) ==
  IF Len(s) >= targetLength THEN s ELSE PadStart(<<pad>> \o s, targetLength, pad)

\* const months = { 'January': '01', ..., 'December': '12' }
months ==
     <<"J","a","n","u","a","r","y">> :> <<"0","1">>
  @@ <<"F","e","b","r","u","a","r","y">> :> <<"0","2">>
  @@ <<"M","a","r","c","h">> :> <<"0","3">>
  @@ <<"A","p","r","i","l">> :> <<"0","4">>
  @@ <<"M","a","y">> :> <<"0","5">>
  @@ <<"J","u","n","e">> :> <<"0","6">>
  @@ <<"J","u","l","y">> :> <<"0","7">>
  @@ <<"A","u","g","u","s","t">> :> <<"0","8">>
  @@ <<"S","e","p","t","e","m","b","e","r">> :> <<"0","9">>
  @@ <<"O","c","t","o","b","e","r">> :> <<"1","0">>
  @@ <<"N","o","v","e","m","b","e","r">> :> <<"1","1">>
  @@ <<"D","e","c","e","m","b","e","r">> :> <<"1","2">>

\* the properties the object literal inherits from Object.prototype, as far
\* as the inputs name them: both are functions
InheritedFunctions == {<<"c","o","n","s","t","r","u","c","t","o","r">>, <<"t","o","S","t","r","i","n","g">>}

\* months[key]: the own property, an inherited one, or undefined
MonthLookup(key) ==
  IF key \in DOMAIN months THEN Str(months[key])
  ELSE IF key \in InheritedFunctions THEN [t |-> "function", name |-> key]
  ELSE Undefined

\* `${value}` of what MonthLookup returns
TemplateText(value) ==
  IF value.t = "string" THEN value.v
  ELSE <<"function ">> \o (IF value.name = <<"c","o","n","s","t","r","u","c","t","o","r">> THEN <<"Object">> ELSE value.name)
       \o <<"() { [native code] }">>

\* parseEmaDate: `if (!emaDate) return null`, then the try block, in which
\* emaDate.trim() throws for a value that is not a string and the catch
\* returns null
parseEmaDate(date) ==
  IF date.t \in {"null", "undefined"} \/ ~TruthyValue(date) THEN Null
  ELSE IF date.t # "string" THEN Null
  ELSE LET parts == Split(Trim(date.v), " ")
       IN  IF Len(parts) # 3 THEN Null
           ELSE LET day == PadStart(parts[1], 2, "0")
                    month == MonthLookup(parts[2])
                    year == parts[3]
                IN  IF month.t # "undefined"
                    THEN Str(year \o <<"-">> \o TemplateText(month) \o <<"-">> \o day)
                    ELSE Null

(***************************************************************************)
(* Validation and envelope code every handler repeats                      *)
(***************************************************************************)
\* params.limit && (typeof params.limit !== 'number' || params.limit < 1
\*                  || params.limit > 10000)
LimitInvalid(p) ==
  Truthy(p, "limit") /\ (TypeOf(p["limit"]) # "number" \/ p["limit"].v < 1 \/ p["limit"].v > 10000)

LimitError == <<"limit must be a number between 1 and 10000">>

\* params.year && (typeof params.year !== 'number' || params.year < 1995
\*                 || params.year > new Date().getFullYear() + 1)
YearInvalid(p, now) ==
  Truthy(p, "year") /\ (TypeOf(p["year"]) # "number" \/ p["year"].v < 1995 \/ p["year"].v > now + 1)

YearError(now) == <<"year must be a number between 1995 and ">> \o NumToString(now + 1)

\* LimitOr with 100 as the fallback of every handler
LimitOrHundred(p, fallback) == IF Truthy(p, "limit") THEN p["limit"].v ELSE 100

\* const limit = params.limit || fallback
LimitOr(p, fallback) == IF Truthy(p, "limit") THEN p["limit"].v ELSE fallback

\* Respond with total_count taken before the slice
RespondCountingBeforeLimit(filtered, limit, source, url, now) ==
  [total_count |-> Len(filtered), results |-> Slice(filtered, limit), source |-> source,
   source_url |-> url, last_updated |-> now]

\* results = results.slice(0, limit); return { total_count: results.length, ... }
Respond(filtered, limit, source, url, now) ==
  LET results == Slice(filtered, limit)
  IN  [total_count |-> Len(results), results |-> results, source |-> source,
       source_url |-> url, last_updated |-> now]

\* the validation passed
Valid == <<>>

(***************************************************************************)
(* Words of the upstream datasets and of the validation lists              *)
(***************************************************************************)
Authorised == <<"A","u","t","h","o","r","i","s","e","d">>
Withdrawn == <<"W","i","t","h","d","r","a","w","n">>
Refused == <<"R","e","f","u","s","e","d">>
Suspended == <<"S","u","s","p","e","n","d","e","d">>
Positive == <<"P","o","s","i","t","i","v","e">>
Negative == <<"N","e","g","a","t","i","v","e">>
Ongoing == <<"O","n","g","o","i","n","g">>
Resolved == <<"R","e","s","o","l","v","e","d">>
ongoing == <<"o","n","g","o","i","n","g">>
resolved == <<"r","e","s","o","l","v","e","d">>
Yes == <<"Y","e","s">>
No == <<"N","o">>
Si == <<"S","ì">>

(***************************************************************************)
(* search_medicines                                                        *)
(***************************************************************************)
MedicinesEndpoint == "medicines-output-medicines_json-report_en.json"

searchMedicinesValidate(p) ==
  IF LimitInvalid(p) THEN LimitError
  ELSE IF Truthy(p, "status")
          /\ p["status"] \notin {Str(Authorised), Str(Withdrawn), Str(Refused), Str(Suspended)}
       THEN <<"status must be one of: Authorised, Withdrawn, Refused, Suspended">>
  ELSE Valid

\* one filter of searchMedicines: the `if` block that reads params[name]
searchMedicinesFilterStep(name, p, results) ==
  CASE name = "active_substance" ->
         IF Truthy(p, "active_substance")
         THEN SelectSeq(results,
                LAMBDA m : FieldIncludes(m, "active_substance", SearchTerm(p, "active_substance")))
         ELSE results
    [] name = "therapeutic_area" ->
         IF Truthy(p, "therapeutic_area")
         THEN SelectSeq(results,
                LAMBDA m : \/ FieldIncludes(m, "therapeutic_area_mesh", SearchTerm(p, "therapeutic_area"))
                           \/ FieldIncludes(m, "therapeutic_indication", SearchTerm(p, "therapeutic_area")))
         ELSE results
    [] name = "status" ->
         IF Truthy(p, "status")
         THEN SelectSeq(results, LAMBDA m : FieldIs(m, "medicine_status", p["status"].v))
         ELSE results
    [] name = "orphan" ->
         IF IsTrue(p, "orphan")
         THEN SelectSeq(results, LAMBDA m : FieldIs(m, "orphan_medicine", Yes)) ELSE results
    [] name = "prime" ->
         IF IsTrue(p, "prime")
         THEN SelectSeq(results, LAMBDA m : FieldIs(m, "prime_priority_medicine", Yes)) ELSE results
    [] name = "biosimilar" ->
         IF IsTrue(p, "biosimilar")
         THEN SelectSeq(results, LAMBDA m : FieldIs(m, "biosimilar", Yes)) ELSE results
    [] name = "conditional_approval" ->
         IF IsTrue(p, "conditional_approval")
         THEN SelectSeq(results, LAMBDA m : FieldIs(m, "conditional_approval", Yes)) ELSE results

searchMedicinesFilter(p, allMedicines) ==
  LET r1 == searchMedicinesFilterStep("active_substance", p, allMedicines)
      r2 == searchMedicinesFilterStep("therapeutic_area", p, r1)
      r3 == searchMedicinesFilterStep("status", p, r2)
      r4 == searchMedicinesFilterStep("orphan", p, r3)
      r5 == searchMedicinesFilterStep("prime", p, r4)
      r6 == searchMedicinesFilterStep("biosimilar", p, r5)
      r7 == searchMedicinesFilterStep("conditional_approval", p, r6)
  IN  r7

\* searchMedicines from the fetch on: `delivery` is what axios.get settled with
searchMedicines(p, delivery, now) ==
  LET allMedicines == makeEmaRequest(delivery)
  IN  IF allMedicines.threw THEN allMedicines
      ELSE Returned(Respond(searchMedicinesFilter(p, allMedicines.value), LimitOr(p, 100),
                            "EMA Medicines Database", generateEmaUrl(MedicinesEndpoint), now))

(***************************************************************************)
(* get_medicine_by_name                                                    *)
(***************************************************************************)
\* !name || typeof name !== 'string' || name.trim().length === 0
getMedicineByNameValidate(p) ==
  IF ~Truthy(p, "name") \/ TypeOf(p["name"]) # "string" \/ Len(Trim(p["name"].v)) = 0
  THEN <<"name parameter is required and must be a non-empty string">>
  ELSE Valid

\* NameMatches with === in place of includes: the whole name, not a part
NameEquals(m, searchTerm) ==
  HasField(m, "name_of_medicine") /\ ToLowerCase(m["name_of_medicine"]) = searchTerm

\* m.name_of_medicine && m.name_of_medicine.toLowerCase().includes(searchTerm)
NameMatches(m, searchTerm) == FieldIncludes(m, "name_of_medicine", searchTerm)

\* FindMedicine returning the last element that satisfies the test
FindMedicineLast(allMedicines, searchTerm) ==
  LET hits == {i \in 1..Len(allMedicines) : NameMatches(allMedicines[i], searchTerm)}
  IN  IF hits = {} THEN <<>>
      ELSE <<allMedicines[CHOOSE i \in hits : \A j \in hits : i >= j]>>

\* Array.prototype.find: the first element that satisfies the test
FindMedicine(allMedicines, searchTerm) ==
  LET hits == {i \in 1..Len(allMedicines) : NameMatches(allMedicines[i], searchTerm)}
  IN  IF hits = {} THEN <<>>
      ELSE <<allMedicines[CHOOSE i \in hits : \A j \in hits : i <= j]>>

NotFoundMessage(name) ==
  <<"Medicine ", "\"">> \o name \o <<"\"", " ", "not found", " in EMA database">>

\* getMedicineByName reporting a URL that carries the name
getMedicineByNameUrlWithName(p, delivery, now) ==
  LET allMedicines == makeEmaRequest(delivery)
      url == generateEmaUrl(MedicinesEndpoint) \o <<"?name=">> \o p["name"].v
  IN  IF allMedicines.threw THEN allMedicines
      ELSE LET medicine == FindMedicine(allMedicines.value, ToLowerCase(Trim(p["name"].v)))
           IN  IF medicine = <<>>
               THEN Returned([found |-> FALSE, message |-> NotFoundMessage(p["name"].v),
                              source |-> "EMA Medicines Database", source_url |-> url])
               ELSE Returned([found |-> TRUE, medicine |-> medicine[1],
                              source |-> "EMA Medicines Database", source_url |-> url,
                              last_updated |-> now])

getMedicineByName(p, delivery, now) ==
  LET allMedicines == makeEmaRequest(delivery)
      url == generateEmaUrl(MedicinesEndpoint)
  IN  IF allMedicines.threw THEN allMedicines
      ELSE LET medicine == FindMedicine(allMedicines.value, ToLowerCase(Trim(p["name"].v)))
           IN  IF medicine = <<>>
               THEN Returned([found |-> FALSE, message |-> NotFoundMessage(p["name"].v),
                              source |-> "EMA Medicines Database", source_url |-> url])
               ELSE Returned([found |-> TRUE, medicine |-> medicine[1],
                              source |-> "EMA Medicines Database", source_url |-> url,
                              last_updated |-> now])

(***************************************************************************)
(* get_orphan_designations                                                 *)
(***************************************************************************)
OrphanEndpoint == "medicines-output-orphan_designations-json-report_en.json"

getOrphanDesignationsValidate(p, now) ==
  IF LimitInvalid(p) THEN LimitError
  ELSE IF YearInvalid(p, now) THEN YearError(now)
  ELSE IF Truthy(p, "status")
          /\ p["status"] \notin {Str(Positive), Str(Negative), Str(Withdrawn)}
       THEN <<"status must be one of: Positive, Negative, Withdrawn">>
  ELSE Valid

\* one filter of getOrphanDesignations: the `if` block that reads params[name]
getOrphanDesignationsFilterStep(name, p, results) ==
  CASE name = "therapeutic_area" ->
         IF Truthy(p, "therapeutic_area")
         THEN SelectSeq(results,
                LAMBDA d : FieldIncludes(d, "intended_use", SearchTerm(p, "therapeutic_area")))
         ELSE results
    [] name = "active_substance" ->
         IF Truthy(p, "active_substance")
         THEN SelectSeq(results,
                LAMBDA d : FieldIncludes(d, "active_substance", SearchTerm(p, "active_substance")))
         ELSE results
    [] name = "year" ->
         IF Truthy(p, "year")
         THEN SelectSeq(results,
                LAMBDA d : FieldIncludesYear(d, "date_of_designation_or_refusal", p["year"].v))
         ELSE results
    [] name = "status" ->
         IF Truthy(p, "status")
         THEN SelectSeq(results, LAMBDA d : FieldEqualsIgnoreCase(d, "status", p["status"].v))
         ELSE results

getOrphanDesignationsFilter(p, allDesignations) ==
  LET r1 == getOrphanDesignationsFilterStep("therapeutic_area", p, allDesignations)
      r2 == getOrphanDesignationsFilterStep("active_substance", p, r1)
      r3 == getOrphanDesignationsFilterStep("year", p, r2)
      r4 == getOrphanDesignationsFilterStep("status", p, r3)
  IN  r4

getOrphanDesignations(p, delivery, now) ==
  LET allDesignations == makeEmaRequest(delivery)
  IN  IF allDesignations.threw THEN allDesignations
      ELSE Returned(Respond(getOrphanDesignationsFilter(p, allDesignations.value), LimitOr(p, 100),
                            "EMA Orphan Designations", generateEmaUrl(OrphanEndpoint), now))

(***************************************************************************)
(* get_supply_shortages                                                    *)
(***************************************************************************)
ShortagesEndpoint == "shortages-output-json-report_en.json"

getSupplyShortagesValidate(p) ==
  IF LimitInvalid(p) THEN LimitError
  ELSE IF Truthy(p, "status")
          /\ p["status"] \notin {Str(Ongoing), Str(Resolved),
                                 Str(ongoing), Str(resolved)}
       THEN <<"status must be one of: Ongoing, Resolved (case-insensitive)">>
  ELSE Valid

\* one filter of getSupplyShortages: the `if` block that reads params[name]
getSupplyShortagesFilterStep(name, p, results) ==
  CASE name = "active_substance" ->
         IF Truthy(p, "active_substance")
         THEN SelectSeq(results,
                LAMBDA s : \/ FieldIncludes(s, "international_non_proprietary_name_inn_or_common_name",
                                            SearchTerm(p, "active_substance"))
                           \/ FieldIncludes(s, "medicine_affected", SearchTerm(p, "active_substance")))
         ELSE results
    [] name = "medicine_name" ->
         IF Truthy(p, "medicine_name")
         THEN SelectSeq(results,
                LAMBDA s : FieldIncludes(s, "medicine_affected", SearchTerm(p, "medicine_name")))
         ELSE results
    [] name = "therapeutic_area" ->
         IF Truthy(p, "therapeutic_area")
         THEN SelectSeq(results,
                LAMBDA s : FieldIncludes(s, "therapeutic_area_mesh", SearchTerm(p, "therapeutic_area")))
         ELSE results
    [] name = "status" ->
         IF Truthy(p, "status")
         THEN SelectSeq(results,
                LAMBDA s : FieldEqualsIgnoreCase(s, "supply_shortage_status", p["status"].v))
         ELSE results

getSupplyShortagesFilter(p, allShortages) ==
  LET r1 == getSupplyShortagesFilterStep("active_substance", p, allShortages)
      r2 == getSupplyShortagesFilterStep("medicine_name", p, r1)
      r3 == getSupplyShortagesFilterStep("therapeutic_area", p, r2)
      r4 == getSupplyShortagesFilterStep("status", p, r3)
  IN  r4

\* getSupplyShortages with a catch around its fetch: an empty envelope in
\* place of the error
getSupplyShortagesSwallowing(p, delivery, now) ==
  LET allShortages == makeEmaRequest(delivery)
  IN  Returned(Respond(IF allShortages.threw THEN <<>>
                       ELSE getSupplyShortagesFilter(p, allShortages.value), LimitOr(p, 50),
                       "EMA Medicine Supply Shortages", generateEmaUrl(ShortagesEndpoint), now))

getSupplyShortages(p, delivery, now) ==
  LET allShortages == makeEmaRequest(delivery)
  IN  IF allShortages.threw THEN allShortages
      ELSE Returned(Respond(getSupplyShortagesFilter(p, allShortages.value), LimitOr(p, 50),
                            "EMA Medicine Supply Shortages", generateEmaUrl(ShortagesEndpoint), now))

(***************************************************************************)
(* get_referrals                                                           *)
(***************************************************************************)
ReferralsEndpoint == "referrals-output-json-report_en.json"

getReferralsValidate(p, now) ==
  IF LimitInvalid(p) THEN LimitError
  ELSE IF Supplied(p, "safety") /\ TypeOf(p["safety"]) # "boolean"
       THEN <<"safety parameter must be a boolean (true or false)">>
  ELSE IF YearInvalid(p, now) THEN YearError(now)
  ELSE Valid

\* one filter of getReferrals: the `if` block that reads params[name]
getReferralsFilterStep(name, p, results) ==
  CASE name = "safety" ->
         IF IsTrue(p, "safety")
         THEN SelectSeq(results,
                LAMBDA r : FieldIs(r, "safety_referral", Si) \/ FieldIs(r, "safety_referral", Yes))
         ELSE IF IsFalse(p, "safety")
         THEN SelectSeq(results, LAMBDA r : FieldIs(r, "safety_referral", No))
         ELSE results
    [] name = "active_substance" ->
         IF Truthy(p, "active_substance")
         THEN SelectSeq(results,
                LAMBDA r : FieldIncludes(r, "international_non_proprietary_name_inn_common_name",
                                         SearchTerm(p, "active_substance")))
         ELSE results
    [] name = "status" ->
         IF Truthy(p, "status")
         THEN SelectSeq(results, LAMBDA r : FieldIncludes(r, "current_status", SearchTerm(p, "status")))
         ELSE results
    [] name = "year" ->
         IF Truthy(p, "year")
         THEN SelectSeq(results, LAMBDA r : FieldIncludesYear(r, "procedure_start_date", p["year"].v))
         ELSE results

getReferralsFilter(p, allReferrals) ==
  LET r1 == getReferralsFilterStep("safety", p, allReferrals)
      r2 == getReferralsFilterStep("active_substance", p, r1)
      r3 == getReferralsFilterStep("status", p, r2)
      r4 == getReferralsFilterStep("year", p, r3)
  IN  r4

getReferrals(p, delivery, now) ==
  LET allReferrals == makeEmaRequest(delivery)
  IN  IF allReferrals.threw THEN allReferrals
      ELSE Returned(Respond(getReferralsFilter(p, allReferrals.value), LimitOr(p, 50),
                            "EMA Referrals", generateEmaUrl(ReferralsEndpoint), now))

(***************************************************************************)
(* get_post_auth_procedures                                                *)
(***************************************************************************)
PostAuthEndpoint == "medicines-output-post_authorisation_json-report_en.json"

getPostAuthProceduresValidate(p) == IF LimitInvalid(p) THEN LimitError ELSE Valid

\* one filter of getPostAuthProcedures: the `if` block that reads params[name]
getPostAuthProceduresFilterStep(name, p, results) ==
  CASE name = "medicine_name" ->
         IF Truthy(p, "medicine_name")
         THEN SelectSeq(results,
                LAMBDA q : FieldIncludes(q, "medicine_name", SearchTerm(p, "medicine_name")))
         ELSE results

getPostAuthProceduresFilter(p, allProcedures) ==
  getPostAuthProceduresFilterStep("medicine_name", p, allProcedures)

getPostAuthProcedures(p, delivery, now) ==
  LET allProcedures == makeEmaRequest(delivery)
  IN  IF allProcedures.threw THEN allProcedures
      ELSE Returned(Respond(getPostAuthProceduresFilter(p, allProcedures.value), LimitOr(p, 50),
                            "EMA Post-Authorization Procedures", generateEmaUrl(PostAuthEndpoint), now))

(***************************************************************************)
(* get_dhpcs                                                               *)
(***************************************************************************)
DhpcEndpoint == "dhpc-output-json-report_en.json"

getDhpcsValidate(p, now) ==
  IF LimitInvalid(p) THEN LimitError
  ELSE IF YearInvalid(p, now) THEN YearError(now)
  ELSE Valid

\* getDhpcsFilterStep with a medicine_name filter that keeps only the first
\* matching record (find in the place of filter)
getDhpcsFilterStepFirstOnly(name, p, results) ==
  CASE name = "medicine_name" ->
         LET found == IF Truthy(p, "medicine_name")
                      THEN SelectSeq(results,
                             LAMBDA d : FieldIncludes(d, "name_of_medicine", SearchTerm(p, "medicine_name")))
                      ELSE results
         IN  IF Truthy(p, "medicine_name") /\ found # <<>> THEN <<Head(found)>> ELSE found
    [] name = "active_substance" ->
         IF Truthy(p, "active_substance")
         THEN SelectSeq(results,
                LAMBDA d : FieldIncludes(d, "active_substances", SearchTerm(p, "active_substance")))
         ELSE results
    [] name = "dhpc_type" ->
         IF Truthy(p, "dhpc_type")
         THEN SelectSeq(results, LAMBDA d : FieldEqualsIgnoreCase(d, "dhpc_type", p["dhpc_type"].v))
         ELSE results
    [] name = "year" ->
         IF Truthy(p, "year")
         THEN SelectSeq(results, LAMBDA d : FieldIncludesYear(d, "dissemination_date", p["year"].v))
         ELSE results

\* one filter of getDhpcs: the `if` block that reads params[name]
getDhpcsFilterStep(name, p, results) ==
  CASE name = "medicine_name" ->
         IF Truthy(p, "medicine_name")
         THEN SelectSeq(results,
                LAMBDA d : FieldIncludes(d, "name_of_medicine", SearchTerm(p, "medicine_name")))
         ELSE results
    [] name = "active_substance" ->
         IF Truthy(p, "active_substance")
         THEN SelectSeq(results,
                LAMBDA d : FieldIncludes(d, "active_substances", SearchTerm(p, "active_substance")))
         ELSE results
    [] name = "dhpc_type" ->
         IF Truthy(p, "dhpc_type")
         THEN SelectSeq(results, LAMBDA d : FieldEqualsIgnoreCase(d, "dhpc_type", p["dhpc_type"].v))
         ELSE results
    [] name = "year" ->
         IF Truthy(p, "year")
         THEN SelectSeq(results, LAMBDA d : FieldIncludesYear(d, "dissemination_date", p["year"].v))
         ELSE results

getDhpcsFilter(p, allDhpcs) ==
  LET r1 == getDhpcsFilterStep("medicine_name", p, allDhpcs)
      r2 == getDhpcsFilterStep("active_substance", p, r1)
      r3 == getDhpcsFilterStep("dhpc_type", p, r2)
      r4 == getDhpcsFilterStep("year", p, r3)
  IN  r4

getDhpcs(p, delivery, now) ==
  LET allDhpcs == makeEmaRequest(delivery)
  IN  IF allDhpcs.threw THEN allDhpcs
      ELSE Returned(Respond(getDhpcsFilter(p, allDhpcs.value), LimitOr(p, 50),
                            "EMA Direct Healthcare Professional Communications",
                            generateEmaUrl(DhpcEndpoint), now))

(***************************************************************************)
(* get_psusas                                                              *)
(***************************************************************************)
PsusaEndpoint ==
  "medicines-output-periodic_safety_update_report_single_assessments-output-json-report_en.json"

getPsusasValidate(p) == IF LimitInvalid(p) THEN LimitError ELSE Valid

\* one filter of getPsusas: the `if` block that reads params[name]
getPsusasFilterStep(name, p, results) ==
  CASE name = "active_substance" ->
         IF Truthy(p, "active_substance")
         THEN SelectSeq(results,
                LAMBDA q : \/ FieldIncludes(q, "active_substance", SearchTerm(p, "active_substance"))
                           \/ FieldIncludes(q, "active_substances_in_scope_of_procedure",
                                            SearchTerm(p, "active_substance")))
         ELSE results
    [] name = "regulatory_outcome" ->
         IF Truthy(p, "regulatory_outcome")
         THEN SelectSeq(results,
                LAMBDA q : FieldEqualsIgnoreCase(q, "regulatory_outcome", p["regulatory_outcome"].v))
         ELSE results

getPsusasFilter(p, allPsusas) ==
  LET r1 == getPsusasFilterStep("active_substance", p, allPsusas)
      r2 == getPsusasFilterStep("regulatory_outcome", p, r1)
  IN  r2

getPsusas(p, delivery, now) ==
  LET allPsusas == makeEmaRequest(delivery)
  IN  IF allPsusas.threw THEN allPsusas
      ELSE Returned(Respond(getPsusasFilter(p, allPsusas.value), LimitOr(p, 100),
                            "EMA Periodic Safety Update Reports", generateEmaUrl(PsusaEndpoint), now))

(***************************************************************************)
(* get_pips                                                                *)
(***************************************************************************)
PipEndpoint == "medicines-output-paediatric_investigation_plans-output-json-report_en.json"

getPipsValidate(p, now) ==
  IF LimitInvalid(p) THEN LimitError
  ELSE IF YearInvalid(p, now) THEN YearError(now)
  ELSE Valid

\* one filter of getPips: the `if` block that reads params[name]
getPipsFilterStep(name, p, results) ==
  CASE name = "active_substance" ->
         IF Truthy(p, "active_substance")
         THEN SelectSeq(results,
                LAMBDA q : FieldIncludes(q, "active_substance", SearchTerm(p, "active_substance")))
         ELSE results
    [] name = "therapeutic_area" ->
         IF Truthy(p, "therapeutic_area")
         THEN SelectSeq(results,
                LAMBDA q : FieldIncludes(q, "therapeutic_area", SearchTerm(p, "therapeutic_area")))
         ELSE results
    [] name = "decision_type" ->
         IF Truthy(p, "decision_type")
         THEN SelectSeq(results,
                LAMBDA q : FieldIncludes(q, "decision_type", SearchTerm(p, "decision_type")))
         ELSE results
    [] name = "year" ->
         IF Truthy(p, "year")
         THEN SelectSeq(results, LAMBDA q : FieldIncludesYear(q, "decision_date", p["year"].v))
         ELSE results

getPipsFilter(p, allPips) ==
  LET r1 == getPipsFilterStep("active_substance", p, allPips)
      r2 == getPipsFilterStep("therapeutic_area", p, r1)
      r3 == getPipsFilterStep("decision_type", p, r2)
      r4 == getPipsFilterStep("year", p, r3)
  IN  r4

getPips(p, delivery, now) ==
  LET allPips == makeEmaRequest(delivery)
  IN  IF allPips.threw THEN allPips
      ELSE Returned(Respond(getPipsFilter(p, allPips.value), LimitOr(p, 100),
                            "EMA Paediatric Investigation Plans", generateEmaUrl(PipEndpoint), now))

(***************************************************************************)
(* get_herbal_medicines and get_article58_medicines: no endpoint           *)
(***************************************************************************)
PlaceholderUrl == <<"https://www.ema.europa.eu/en/medicines/download-medicine-data">>

getHerbalMedicinesValidate(p) == IF LimitInvalid(p) THEN LimitError ELSE Valid

\* allHerbal holding a record instead of nothing
allHerbalWithRecord == <<[herbal_substance |-> <<"a","b">>, therapeutic_area |-> <<"a","b">>]>>

\* const allHerbal = []
allHerbal == <<>>

\* one filter of getHerbalMedicines: the `if` block that reads params[name]
getHerbalMedicinesFilterStep(name, p, results) ==
  CASE name = "substance" ->
         IF Truthy(p, "substance")
         THEN SelectSeq(results,
                LAMBDA h : \/ FieldIncludes(h, "herbal_substance", SearchTerm(p, "substance"))
                           \/ FieldIncludes(h, "botanical_name", SearchTerm(p, "substance")))
         ELSE results
    [] name = "therapeutic_area" ->
         IF Truthy(p, "therapeutic_area")
         THEN SelectSeq(results,
                LAMBDA h : FieldIncludes(h, "therapeutic_area", SearchTerm(p, "therapeutic_area")))
         ELSE results

getHerbalMedicinesFilter(p, all) ==
  LET r1 == getHerbalMedicinesFilterStep("substance", p, all)
      r2 == getHerbalMedicinesFilterStep("therapeutic_area", p, r1)
  IN  r2

getHerbalMedicines(p, now) ==
  Returned(Respond(getHerbalMedicinesFilter(p, allHerbal), LimitOr(p, 50),
                   "EMA Herbal Medicines (placeholder - no JSON endpoint available)",
                   PlaceholderUrl, now))

getArticle58MedicinesValidate(p) == IF LimitInvalid(p) THEN LimitError ELSE Valid

\* const allArticle58 = []
allArticle58 == <<>>

\* one filter of getArticle58Medicines: the `if` block that reads params[name]
getArticle58MedicinesFilterStep(name, p, results) ==
  CASE name = "active_substance" ->
         IF Truthy(p, "active_substance")
         THEN SelectSeq(results,
                LAMBDA m : FieldIncludes(m, "active_substance", SearchTerm(p, "active_substance")))
         ELSE results
    [] name = "medicine_name" ->
         IF Truthy(p, "medicine_name")
         THEN SelectSeq(results,
                LAMBDA m : FieldIncludes(m, "medicine_name", SearchTerm(p, "medicine_name")))
         ELSE results

getArticle58MedicinesFilter(p, all) ==
  LET r1 == getArticle58MedicinesFilterStep("active_substance", p, all)
      r2 == getArticle58MedicinesFilterStep("medicine_name", p, r1)
  IN  r2

getArticle58Medicines(p, now) ==
  Returned(Respond(getArticle58MedicinesFilter(p, allArticle58), LimitOr(p, 50),
                   "EMA Medicines for Use Outside EU - Article 58 (placeholder - no JSON endpoint available)",
                   PlaceholderUrl, now))

(***************************************************************************)
(* search_epar_documents, search_all_documents, search_non_epar_documents  *)
(***************************************************************************)
EparDocumentsEndpoint == "documents-output-epar_documents_json-report_en.json"
AllDocumentsEndpoint == "documents-output-json-report_en.json"
NonEparDocumentsEndpoint == "documents-output-non_epar_documents_json-report_en.json"

searchEparDocumentsValidate(p) == IF LimitInvalid(p) THEN LimitError ELSE Valid

\* one filter of searchEparDocuments: the `if` block that reads params[name]
searchEparDocumentsFilterStep(name, p, results) ==
  CASE name = "medicine_name" ->
         IF Truthy(p, "medicine_name")
         THEN SelectSeq(results,
                LAMBDA d : FieldIncludes(d, "medicine_name", SearchTerm(p, "medicine_name")))
         ELSE results
    [] name = "document_type" ->
         IF Truthy(p, "document_type")
         THEN SelectSeq(results,
                LAMBDA d : FieldIncludes(d, "document_type", SearchTerm(p, "document_type")))
         ELSE results
    [] name = "language" ->
         IF Truthy(p, "language")
         THEN SelectSeq(results,
                LAMBDA d : HasField(d, "language")
                           /\ ToLowerCase(d["language"]) = SearchTerm(p, "language"))
         ELSE results

searchEparDocumentsFilter(p, allDocuments) ==
  LET r1 == searchEparDocumentsFilterStep("medicine_name", p, allDocuments)
      r2 == searchEparDocumentsFilterStep("document_type", p, r1)
      r3 == searchEparDocumentsFilterStep("language", p, r2)
  IN  r3

searchEparDocuments(p, delivery, now) ==
  LET allDocuments == makeEmaDocumentRequest(delivery)
  IN  IF allDocuments.threw THEN allDocuments
      ELSE Returned(Respond(searchEparDocumentsFilter(p, allDocuments.value), LimitOr(p, 100),
                            "EMA EPAR Documents", generateEmaUrl(EparDocumentsEndpoint), now))

searchAllDocumentsValidate(p) == IF LimitInvalid(p) THEN LimitError ELSE Valid

\* one filter of searchAllDocuments: the `if` block that reads params[name]
searchAllDocumentsFilterStep(name, p, results) ==
  CASE name = "search_term" ->
         IF Truthy(p, "search_term")
         THEN SelectSeq(results,
                LAMBDA d : \/ FieldIncludes(d, "title", SearchTerm(p, "search_term"))
                           \/ FieldIncludes(d, "document_title", SearchTerm(p, "search_term")))
         ELSE results
    [] name = "document_type" ->
         IF Truthy(p, "document_type")
         THEN SelectSeq(results,
                LAMBDA d : FieldIncludes(d, "document_type", SearchTerm(p, "document_type")))
         ELSE results
    [] name = "category" ->
         IF Truthy(p, "category")
         THEN SelectSeq(results, LAMBDA d : FieldIncludes(d, "category", SearchTerm(p, "category")))
         ELSE results

searchAllDocumentsFilter(p, allDocuments) ==
  LET r1 == searchAllDocumentsFilterStep("search_term", p, allDocuments)
      r2 == searchAllDocumentsFilterStep("document_type", p, r1)
      r3 == searchAllDocumentsFilterStep("category", p, r2)
  IN  r3

searchAllDocuments(p, delivery, now) ==
  LET allDocuments == makeEmaDocumentRequest(delivery)
  IN  IF allDocuments.threw THEN allDocuments
      ELSE Returned(Respond(searchAllDocumentsFilter(p, allDocuments.value), LimitOr(p, 100),
                            "EMA All Documents", generateEmaUrl(AllDocumentsEndpoint), now))

searchNonEparDocumentsValidate(p) == IF LimitInvalid(p) THEN LimitError ELSE Valid

\* one filter of searchNonEparDocuments: the `if` block that reads params[name]
searchNonEparDocumentsFilterStep(name, p, results) ==
  CASE name = "search_term" ->
         IF Truthy(p, "search_term")
         THEN SelectSeq(results,
                LAMBDA d : \/ FieldIncludes(d, "title", SearchTerm(p, "search_term"))
                           \/ FieldIncludes(d, "document_title", SearchTerm(p, "search_term")))
         ELSE results
    [] name = "document_type" ->
         IF Truthy(p, "document_type")
         THEN SelectSeq(results,
                LAMBDA d : FieldIncludes(d, "document_type", SearchTerm(p, "document_type")))
         ELSE results

searchNonEparDocumentsFilter(p, allDocuments) ==
  LET r1 == searchNonEparDocumentsFilterStep("search_term", p, allDocuments)
      r2 == searchNonEparDocumentsFilterStep("document_type", p, r1)
  IN  r2

searchNonEparDocuments(p, delivery, now) ==
  LET allDocuments == makeEmaDocumentRequest(delivery)
  IN  IF allDocuments.threw THEN allDocuments
      ELSE Returned(Respond(searchNonEparDocumentsFilter(p, allDocuments.value), LimitOr(p, 100),
                            "EMA Non-EPAR Documents", generateEmaUrl(NonEparDocumentsEndpoint), now))

(***************************************************************************)
(* The handlers by method name                                             *)
(***************************************************************************)
StubMethods == {"get_herbal_medicines", "get_article58_medicines"}

DocumentMethods ==
  {"search_epar_documents", "search_all_documents", "search_non_epar_documents"}

ListMethods ==
  {"search_medicines", "get_orphan_designations", "get_supply_shortages", "get_referrals",
   "get_post_auth_procedures", "get_dhpcs", "get_psusas", "get_pips"}
  \cup StubMethods \cup DocumentMethods

Methods == ListMethods \cup {"get_medicine_by_name"}

\* case 'get_medicine_by_name': const { name } = params; if (!name) throw ...;
\* then getMedicineByName(name) makes its own check
getMedicineByNameCase(p) ==
  IF ~Truthy(p, "name") THEN <<"name parameter is required for get_medicine_by_name">>
  ELSE getMedicineByNameValidate(p)

\* the method names the switch does not know; a request that names no
\* method reads as "undefined" in the message
UnknownMethods == {"get_medicines", "SEARCH_MEDICINES", "undefined"}

\* default: throw new Error(`Unknown method: ${method}`)
UnknownMethodError(m) == <<"Unknown method: ", m>>

\* the checks made for a method before anything is requested: Valid, or
\* the message of the Error thrown
Validate(m, p, now) ==
  CASE m = "search_medicines" -> searchMedicinesValidate(p)
    [] m = "get_medicine_by_name" -> getMedicineByNameCase(p)
    [] m = "get_orphan_designations" -> getOrphanDesignationsValidate(p, now)
    [] m = "get_supply_shortages" -> getSupplyShortagesValidate(p)
    [] m = "get_referrals" -> getReferralsValidate(p, now)
    [] m = "get_post_auth_procedures" -> getPostAuthProceduresValidate(p)
    [] m = "get_dhpcs" -> getDhpcsValidate(p, now)
    [] m = "get_psusas" -> getPsusasValidate(p)
    [] m = "get_pips" -> getPipsValidate(p, now)
    [] m = "get_herbal_medicines" -> getHerbalMedicinesValidate(p)
    [] m = "get_article58_medicines" -> getArticle58MedicinesValidate(p)
    [] m = "search_epar_documents" -> searchEparDocumentsValidate(p)
    [] m = "search_all_documents" -> searchAllDocumentsValidate(p)
    [] m = "search_non_epar_documents" -> searchNonEparDocumentsValidate(p)

\* the endpoint a handler requests
Endpoint(m) ==
  CASE m \in {"search_medicines", "get_medicine_by_name"} -> MedicinesEndpoint
    [] m = "get_orphan_designations" -> OrphanEndpoint
    [] m = "get_supply_shortages" -> ShortagesEndpoint
    [] m = "get_referrals" -> ReferralsEndpoint
    [] m = "get_post_auth_procedures" -> PostAuthEndpoint
    [] m = "get_dhpcs" -> DhpcEndpoint
    [] m = "get_psusas" -> PsusaEndpoint
    [] m = "get_pips" -> PipEndpoint
    [] m = "search_epar_documents" -> EparDocumentsEndpoint
    [] m = "search_all_documents" -> AllDocumentsEndpoint
    [] m = "search_non_epar_documents" -> NonEparDocumentsEndpoint

\* AfterFetch with two cases of the switch crossed: get_dhpcs answered by
\* getPsusas and get_psusas by getDhpcs
AfterFetchCrossed(m, p, delivery, now) ==
  CASE m = "search_medicines" -> searchMedicines(p, delivery, now)
    [] m = "get_medicine_by_name" -> getMedicineByName(p, delivery, now)
    [] m = "get_orphan_designations" -> getOrphanDesignations(p, delivery, now)
    [] m = "get_supply_shortages" -> getSupplyShortages(p, delivery, now)
    [] m = "get_referrals" -> getReferrals(p, delivery, now)
    [] m = "get_post_auth_procedures" -> getPostAuthProcedures(p, delivery, now)
    [] m = "get_dhpcs" -> getPsusas(p, delivery, now)
    [] m = "get_psusas" -> getDhpcs(p, delivery, now)
    [] m = "get_pips" -> getPips(p, delivery, now)
    [] m = "search_epar_documents" -> searchEparDocuments(p, delivery, now)
    [] m = "search_all_documents" -> searchAllDocuments(p, delivery, now)
    [] m = "search_non_epar_documents" -> searchNonEparDocuments(p, delivery, now)

\* a handler that awaits a request, from the moment axios.get settles
AfterFetch(m, p, delivery, now) ==
  CASE m = "search_medicines" -> searchMedicines(p, delivery, now)
    [] m = "get_medicine_by_name" -> getMedicineByName(p, delivery, now)
    [] m = "get_orphan_designations" -> getOrphanDesignations(p, delivery, now)
    [] m = "get_supply_shortages" -> getSupplyShortages(p, delivery, now)
    [] m = "get_referrals" -> getReferrals(p, delivery, now)
    [] m = "get_post_auth_procedures" -> getPostAuthProcedures(p, delivery, now)
    [] m = "get_dhpcs" -> getDhpcs(p, delivery, now)
    [] m = "get_psusas" -> getPsusas(p, delivery, now)
    [] m = "get_pips" -> getPips(p, delivery, now)
    [] m = "search_epar_documents" -> searchEparDocuments(p, delivery, now)
    [] m = "search_all_documents" -> searchAllDocuments(p, delivery, now)
    [] m = "search_non_epar_documents" -> searchNonEparDocuments(p, delivery, now)

\* a handler that requests nothing, from validation on
WithoutFetch(m, p, now) ==
  CASE m = "get_herbal_medicines" -> getHerbalMedicines(p, now)
    [] m = "get_article58_medicines" -> getArticle58Medicines(p, now)

(***************************************************************************)
(* Inputs: the records the provider may send and the bags a caller may     *)
(* pass.  Field values are strings over a small alphabet in both letter    *)
(* cases; a field may be missing or empty.                                 *)
(***************************************************************************)
s_ab == <<"a","b">>
s_Ab == <<"A","b">>
s_aB == <<"a","B">>
s_BA == <<"B","A">>
s_b == <<"b">>
Date2024 == <<"2"," ","M","a","y"," ","2","0","2","4">>
Date1995 == <<"1","5"," ","M","a","r","c","h"," ","1","9","9","5">>

MedicineSamples ==
  << [name_of_medicine |-> s_Ab, active_substance |-> s_ab, therapeutic_area_mesh |-> s_BA,
      therapeutic_indication |-> s_b, medicine_status |-> Authorised, orphan_medicine |-> Yes,
      prime_priority_medicine |-> No, biosimilar |-> No, conditional_approval |-> No],
     [name_of_medicine |-> s_BA, active_substance |-> s_BA, therapeutic_indication |-> s_aB,
      medicine_status |-> Withdrawn, orphan_medicine |-> No, prime_priority_medicine |-> Yes,
      biosimilar |-> Yes, conditional_approval |-> Yes],
     [name_of_medicine |-> <<>>, therapeutic_area_mesh |-> s_b,
      medicine_status |-> ToLowerCase(Authorised), orphan_medicine |-> ToLowerCase(Yes),
      biosimilar |-> Yes] >>

OrphanSamples ==
  << [intended_use |-> s_ab, active_substance |-> s_BA,
      date_of_designation_or_refusal |-> Date2024, status |-> Positive],
     [intended_use |-> s_b, active_substance |-> s_aB,
      date_of_designation_or_refusal |-> Date1995, status |-> ToLowerCase(Positive)],
     [active_substance |-> <<>>, status |-> Negative] >>

ShortageSamples ==
  << [international_non_proprietary_name_inn_or_common_name |-> s_ab, medicine_affected |-> s_b,
      therapeutic_area_mesh |-> s_BA, supply_shortage_status |-> Ongoing],
     [medicine_affected |-> s_Ab, therapeutic_area_mesh |-> s_b,
      supply_shortage_status |-> Resolved],
     [international_non_proprietary_name_inn_or_common_name |-> s_BA, medicine_affected |-> <<>>] >>

ReferralSamples ==
  << [safety_referral |-> Si, international_non_proprietary_name_inn_common_name |-> s_ab,
      current_status |-> s_BA, procedure_start_date |-> Date2024],
     [safety_referral |-> No, international_non_proprietary_name_inn_common_name |-> s_b,
      current_status |-> s_aB, procedure_start_date |-> Date1995],
     [safety_referral |-> Yes, current_status |-> s_b] >>

PostAuthSamples ==
  << [medicine_name |-> s_ab, name_of_medicine |-> s_ab],
     [medicine_name |-> s_BA],
     [name_of_medicine |-> s_ab] >>

DhpcSamples ==
  << [name_of_medicine |-> s_ab, active_substances |-> s_BA, dhpc_type |-> s_Ab,
      dissemination_date |-> Date2024],
     [name_of_medicine |-> s_BA, active_substances |-> s_b, dhpc_type |-> s_b,
      dissemination_date |-> Date1995],
     [active_substances |-> s_aB, dhpc_type |-> <<>>] >>

PsusaSamples ==
  << [active_substance |-> s_ab, regulatory_outcome |-> s_Ab],
     [active_substance |-> s_b, active_substances_in_scope_of_procedure |-> s_BA,
      regulatory_outcome |-> s_b],
     [active_substances_in_scope_of_procedure |-> s_b] >>

PipSamples ==
  << [active_substance |-> s_ab, therapeutic_area |-> s_BA, decision_type |-> s_Ab,
      decision_date |-> Date2024],
     [active_substance |-> s_BA, therapeutic_area |-> s_b, decision_type |-> s_b,
      decision_date |-> Date1995],
     [therapeutic_area |-> s_aB, decision_type |-> <<>>] >>

EparDocumentSamples ==
  << [medicine_name |-> s_ab, document_type |-> s_BA, language |-> s_Ab],
     [medicine_name |-> s_BA, document_type |-> s_b, language |-> s_b],
     [document_type |-> s_aB, language |-> <<>>] >>

DocumentSamples ==
  << [title |-> s_ab, document_type |-> s_BA, category |-> s_Ab],
     [title |-> s_b, document_title |-> s_BA, document_type |-> s_b, category |-> s_b],
     [document_title |-> <<>>, category |-> s_aB] >>

\* the sample records of the dataset a handler reads
Samples(m) ==
  CASE m \in {"search_medicines", "get_medicine_by_name"} -> MedicineSamples
    [] m = "get_orphan_designations" -> OrphanSamples
    [] m = "get_supply_shortages" -> ShortageSamples
    [] m = "get_referrals" -> ReferralSamples
    [] m = "get_post_auth_procedures" -> PostAuthSamples
    [] m = "get_dhpcs" -> DhpcSamples
    [] m = "get_psusas" -> PsusaSamples
    [] m = "get_pips" -> PipSamples
    [] m = "search_epar_documents" -> EparDocumentSamples
    [] m \in {"search_all_documents", "search_non_epar_documents"} -> DocumentSamples

\* a collection as the provider sends it: every record also carries its
\* own row number, so that no two records of a collection are equal
Numbered(seq) == [i \in 1..Len(seq) |-> seq[i] @@ ("row" :> i)]

\* the collections of a dataset: every sequence of at most MaxLen sample
\* records, and one of LongLen records that cycles through the samples
Collections(samples) ==
  LET n == Len(samples)
      short == UNION {[1..k -> 1..n] : k \in 0..MaxLen}
  IN  {Numbered([i \in 1..Len(ix) |-> samples[ix[i]]]) : ix \in short}
      \cup {Numbered([i \in 1..LongLen |-> samples[((i - 1) % n) + 1]])}

\* values a caller may pass
TextValues == {Str(<<>>), Str(<<"a">>), Str(s_Ab)}
FlagValues == {Bool(TRUE), Bool(FALSE)}
LimitValues == {Num(0 - 1), Num(0), Num(1), Num(10000), Num(10001), Str(<<"1">>)}
YearValues(now) ==
  {Num(0), Num(1994), Num(1995), Num(2024), Num(now + 1), Num(now + 2), Str(<<"2","0","2","4">>)}
NameValues ==
  {Str(<<>>), Str(<<" ">>), Str(<<"a">>), Str(<<" ","A","B"," ">>), Str(<<"z">>), Num(7)}

\* the parameters a handler reads, each with the values tried for it
ParamValues(m, now) ==
  CASE m = "search_medicines" ->
         [limit |-> LimitValues, active_substance |-> TextValues, therapeutic_area |-> TextValues,
          status |-> {Str(<<>>), Str(Authorised), Str(Withdrawn), Str(ToLowerCase(Authorised))},
          orphan |-> FlagValues, prime |-> FlagValues, biosimilar |-> FlagValues,
          conditional_approval |-> FlagValues]
    [] m = "get_medicine_by_name" -> [name |-> NameValues]
    [] m = "get_orphan_designations" ->
         [limit |-> LimitValues, therapeutic_area |-> TextValues, active_substance |-> TextValues,
          year |-> YearValues(now),
          status |-> {Str(<<>>), Str(Positive), Str(Negative), Str(ToLowerCase(Positive))}]
    [] m = "get_supply_shortages" ->
         [limit |-> LimitValues, active_substance |-> TextValues, medicine_name |-> TextValues,
          therapeutic_area |-> TextValues,
          status |-> {Str(<<>>), Str(Ongoing), Str(resolved), Str(<<"O","N","G","O","I","N","G">>),
                      Str(s_Ab)}]
    [] m = "get_referrals" ->
         [limit |-> LimitValues, safety |-> FlagValues \cup {Str(Yes), Num(0)},
          active_substance |-> TextValues, status |-> TextValues, year |-> YearValues(now)]
    [] m = "get_post_auth_procedures" -> [limit |-> LimitValues, medicine_name |-> TextValues]
    [] m = "get_dhpcs" ->
         [limit |-> LimitValues, medicine_name |-> TextValues, active_substance |-> TextValues,
          dhpc_type |-> TextValues, year |-> YearValues(now)]
    [] m = "get_psusas" ->
         [limit |-> LimitValues, active_substance |-> TextValues, regulatory_outcome |-> TextValues]
    [] m = "get_pips" ->
         [limit |-> LimitValues, active_substance |-> TextValues, therapeutic_area |-> TextValues,
          decision_type |-> TextValues, year |-> YearValues(now)]
    [] m = "get_herbal_medicines" ->
         [limit |-> LimitValues, substance |-> TextValues, therapeutic_area |-> TextValues]
    [] m = "get_article58_medicines" ->
         [limit |-> LimitValues, active_substance |-> TextValues, medicine_name |-> TextValues]
    [] m = "search_epar_documents" ->
         [limit |-> LimitValues, medicine_name |-> TextValues, document_type |-> TextValues,
          language |-> TextValues]
    [] m = "search_all_documents" ->
         [limit |-> LimitValues, search_term |-> TextValues, document_type |-> TextValues,
          category |-> TextValues]
    [] m = "search_non_epar_documents" ->
         [limit |-> LimitValues, search_term |-> TextValues, document_type |-> TextValues]

\* every bag over the names in S
RECURSIVE BagsOver(_, _)
BagsOver(values, S) ==
  IF S = {} THEN {<<>>}
  ELSE LET n == CHOOSE x \in S : TRUE
       IN  {(n :> val) @@ bag : val \in values[n], bag \in BagsOver(values, S \ {n})}

\* the bags tried for a handler: any limit, and at most MaxFilters other
\* parameters
ParamBags(m, now) ==
  LET values == ParamValues(m, now)
  IN  UNION {BagsOver(values, S) :
               S \in {T \in SUBSET DOMAIN values : Cardinality(T \ {"limit"}) <= MaxFilters}}

\* what the transport may settle a request of handler m with
Deliveries(m) ==
  LET colls == Collections(Samples(m))
      right == IF m \in DocumentMethods THEN {WrappedBody(c) : c \in colls}
               ELSE {ArrayBody(c) : c \in colls}
      wrong == IF m \in DocumentMethods THEN {ArrayBody(Numbered(Samples(m)))}
               ELSE {WrappedBody(Numbered(Samples(m)))}
      other == {PlainObjectBody, NullBody, NumberBody, MalformedTextBody,
                ObjectWithData(PlainObjectBody), ObjectWithData(NullBody)}
  IN  {Delivered(b) : b \in right \cup wrong \cup other}
      \cup {TimeoutFailure, HttpFailure("404", "Not Found"),
            HttpFailure("500", "Internal Server Error"), NetworkFailure, SetupFailure}

\* the same, computed once for every handler that requests
DeliveryTable == [m \in Methods \ StubMethods |-> Deliveries(m)]

(***************************************************************************)
(* The request handler of the tool and the call it makes                   *)
(***************************************************************************)
NoDelivery == [ok |-> FALSE, code |-> "pending"]
\* no call in a slot, and no call in any slot
NoCall == [pc |-> "idle"]
NoCalls == [c \in 1..MaxCalls |-> NoCall]
\* parseEmaDate has not been called
NotParsed == [t |-> "pending"]
NoOutcome == [threw |-> FALSE, pending |-> TRUE]
NoResponse == [pending |-> TRUE]

\* JSON.stringify(value, null, 2).  The values given to it are built from
\* strings, numbers, booleans, arrays and plain objects only, on which the
\* text determines the value and the value the text: the text is kept as
\* the JSON document of the value.
JSONStringify(value) == [json |-> value]

\* return { content: [{ type: 'text', text: JSON.stringify(results, null, 2) }] }
ResultResponse(results) ==
  [content |-> <<[type |-> "text", text |-> JSONStringify(results)]>>]

\* ResultResponse for an error: the catch block without its error payload
ErrorAsResult(message) == ResultResponse([total_count |-> 0, results |-> <<>>])

\* catch (error): return { content: [{ type: 'text', text: JSON.stringify(
\*   { error: error.message, source: 'EMA MCP Server' }, null, 2) }], isError: true }
ErrorResponse(message) ==
  [content |-> <<[type |-> "text",
                  text |-> JSONStringify([error |-> message, source |-> "EMA MCP Server"])]>>,
   isError |-> TRUE]

\* what the request handler answers once the try block has ended with o
ToolResult(o) == IF o.threw THEN ErrorResponse(o.message) ELSE ResultResponse(o.value)

\* if (name !== 'ema_info') throw new Error(`Unknown tool: ${name}`): the
\* request handler itself rejects, outside its try block
ToolRejection(name) == [rejected |-> TRUE, message |-> <<"Unknown tool: ", name>>]

\* tool names a request may carry that this server does not offer
OtherToolNames == {"ema_search"}

Init ==
  /\ pc = "idle"
  /\ tool = ""
  /\ method = ""
  /\ params = <<>>
  /\ requests = <<>>
  /\ fetched = NoDelivery
  /\ outcome = NoOutcome
  /\ response = NoResponse
  /\ clock = CurrentYear
  /\ calls = NoCalls
  /\ earlier = NoCall
  /\ emaDate = Null
  /\ parsed = NotParsed

\* A request names a tool other than ema_info: it is rejected before the
\* arguments are read.
CallUnknownTool(name) ==
  /\ pc = "idle"
  /\ name # "ema_info"
  /\ pc' = "done"
  /\ tool' = name
  /\ response' = ToolRejection(name)
  /\ UNCHANGED <<method, params, requests, fetched, outcome, clock>>
  /\ UNCHANGED <<concurrentVars, dateVars>>

\* The caller invokes ema_info with method m and bag p.  The switch picks
\* the handler, which runs up to its first await: it throws on a parameter
\* it rejects, returns at once when it has no endpoint, and otherwise
\* issues its GET and suspends.  A method the switch does not know throws.
Call(m, p) ==
  /\ tool' = "ema_info"
  /\ method' = m
  /\ params' = p
  /\ fetched' = NoDelivery
  /\ clock' = clock
  /\ UNCHANGED <<concurrentVars, dateVars>>
  /\ IF m \in UnknownMethods
     THEN /\ pc' = "done"
          /\ requests' = <<>>
          /\ outcome' = Thrown(UnknownMethodError(m))
          /\ response' = ToolResult(Thrown(UnknownMethodError(m)))
     ELSE IF Validate(m, p, clock) # Valid
     THEN /\ pc' = "done"
          /\ requests' = <<>>
          /\ outcome' = Thrown(Validate(m, p, clock))
          /\ response' = ToolResult(Thrown(Validate(m, p, clock)))
     ELSE IF m \in StubMethods
     THEN /\ pc' = "done"
          /\ requests' = <<>>
          /\ outcome' = WithoutFetch(m, p, clock)
          /\ response' = ToolResult(WithoutFetch(m, p, clock))
     ELSE /\ pc' = "fetching"
          /\ requests' = <<generateEmaUrl(Endpoint(m))>>
          /\ outcome' = NoOutcome
          /\ response' = NoResponse

\* Settle of a handler that requests once more after a rejected request
SettleRetrying ==
  /\ pc = "fetching"
  /\ \E delivery \in DeliveryTable[method] :
       /\ fetched' = delivery
       /\ IF ~delivery.ok /\ Len(requests) < 2
          THEN /\ pc' = "fetching"
               /\ requests' = Append(requests, generateEmaUrl(Endpoint(method)))
               /\ outcome' = NoOutcome
               /\ response' = NoResponse
          ELSE /\ pc' = "done"
               /\ requests' = requests
               /\ outcome' = AfterFetch(method, params, delivery, clock)
               /\ response' = ToolResult(AfterFetch(method, params, delivery, clock))
  /\ UNCHANGED <<tool, method, params, clock>>
  /\ UNCHANGED <<concurrentVars, dateVars>>

\* Settle of a handler that waits on after a rejected request
SettleOnResponseOnly ==
  /\ pc = "fetching"
  /\ \E delivery \in DeliveryTable[method] :
       /\ fetched' = delivery
       /\ IF ~delivery.ok
          THEN /\ pc' = "fetching"
               /\ outcome' = NoOutcome
               /\ response' = NoResponse
          ELSE /\ pc' = "done"
               /\ outcome' = AfterFetch(method, params, delivery, clock)
               /\ response' = ToolResult(AfterFetch(method, params, delivery, clock))
  /\ UNCHANGED <<tool, method, params, requests, clock>>
  /\ UNCHANGED <<concurrentVars, dateVars>>

\* axios.get settles, the handler runs to its end and the request handler
\* answers.
Settle ==
  /\ pc = "fetching"
  /\ \E delivery \in DeliveryTable[method] :
       /\ fetched' = delivery
       /\ outcome' = AfterFetch(method, params, delivery, clock)
       /\ response' = ToolResult(AfterFetch(method, params, delivery, clock))
  /\ pc' = "done"
  /\ UNCHANGED <<tool, method, params, requests, clock>>
  /\ UNCHANGED <<concurrentVars, dateVars>>

\* The caller takes the response; nothing of the call is kept.
Finish ==
  /\ pc = "done"
  /\ pc' = "idle"
  /\ tool' = ""
  /\ method' = ""
  /\ params' = <<>>
  /\ requests' = <<>>
  /\ fetched' = NoDelivery
  /\ outcome' = NoOutcome
  /\ response' = NoResponse
  /\ clock' = clock
  /\ UNCHANGED <<concurrentVars, dateVars>>

\* the bags tried with a method the switch does not know
UnknownMethodBags == {<<>>, "active_substance" :> Str(<<"a">>)}

Next ==
  \/ /\ pc = "idle"
     /\ \E m \in Methods : \E p \in ParamBags(m, clock) : Call(m, p)
  \/ /\ pc = "idle"
     /\ \E m \in UnknownMethods : \E p \in UnknownMethodBags : Call(m, p)
  \/ \E name \in OtherToolNames : CallUnknownTool(name)
  \/ Settle
  \/ Finish

Spec == Init /\ [][Next]_vars

\* axios.get is called with timeout: 30000, so every request settles: with
\* a response, with a failure, or with the timeout after 30 seconds
FairSpec == Spec /\ WF_vars(Settle)

(***************************************************************************)
(* Calls handled concurrently.  The request handler is an async function:  *)
(* a call runs until its handler awaits axios.get, and other calls begin   *)
(* or resume before that request settles.  A call has its arguments and    *)
(* the locals of its handler; the modules declare no variable besides      *)
(* their constants, so there is nothing else a call could read or write.   *)
(***************************************************************************)
\* the methods, bags and deliveries followed when calls are interleaved
ConcurrentMethods == {"search_medicines", "get_medicine_by_name", "get_herbal_medicines"}

ConcurrentBags(m) ==
  CASE m = "search_medicines" -> {<<>>, "active_substance" :> Str(<<"a">>), "limit" :> Num(10001)}
    [] m = "get_medicine_by_name" -> {"name" :> Str(<<"a">>), "name" :> Str(<<" ">>)}
    [] m = "get_herbal_medicines" -> {<<>>}

ConcurrentDeliveries(m) ==
  {Delivered(ArrayBody(Numbered(<<Samples(m)[1]>>))),
   Delivered(ArrayBody(Numbered(<<Samples(m)[2], Samples(m)[1]>>))),
   NetworkFailure}

\* the call of method m with bag p, run up to its first await: what Call
\* does to the variables of one call
Begun(m, p, now) ==
  IF Validate(m, p, now) # Valid
  THEN [pc |-> "done", method |-> m, params |-> p, requests |-> <<>>, fetched |-> NoDelivery,
        outcome |-> Thrown(Validate(m, p, now)), among |-> {}]
  ELSE IF m \in StubMethods
  THEN [pc |-> "done", method |-> m, params |-> p, requests |-> <<>>, fetched |-> NoDelivery,
        outcome |-> WithoutFetch(m, p, now), among |-> {}]
  ELSE [pc |-> "fetching", method |-> m, params |-> p,
        requests |-> <<generateEmaUrl(Endpoint(m))>>, fetched |-> NoDelivery,
        outcome |-> NoOutcome, among |-> {}]

\* the calls suspended at their request
InFlight == {c \in 1..MaxCalls : calls[c].pc = "fetching"}

\* a request arrives while slot c is free
Begin(c, m, p) ==
  /\ calls[c].pc = "idle"
  /\ calls' = [calls EXCEPT ![c] = Begun(m, p, clock)]
  /\ UNCHANGED <<earlier, callVars, clock, dateVars>>

\* Resume for a handler that keeps the fetched collection in a variable of
\* the module, which a call resumed later overwrites
ResumeSharingCollection(c) ==
  /\ calls[c].pc = "fetching"
  /\ \E delivery \in ConcurrentDeliveries(calls[c].method) :
       LET others == {d \in 1..MaxCalls : d # c /\ calls[d].pc = "done" /\ calls[d].requests # <<>>
                                            /\ calls[d].method = calls[c].method}
           shared == IF others = {} THEN delivery
                     ELSE calls[CHOOSE d \in others : TRUE].fetched
       IN  calls' = [calls EXCEPT ![c] =
                       [@ EXCEPT !.pc = "done", !.fetched = delivery,
                                 !.outcome = AfterFetch(calls[c].method, calls[c].params, shared, clock),
                                 !.among = InFlight]]
  /\ UNCHANGED <<earlier, callVars, clock, dateVars>>

\* Resume for a handler that answers from the collection of the call that
\* returned last, when that call was of the same method
ResumeFromCache(c) ==
  /\ calls[c].pc = "fetching"
  /\ \E delivery \in ConcurrentDeliveries(calls[c].method) :
       LET cached == IF earlier.pc = "done" /\ earlier.method = calls[c].method
                        /\ earlier.requests # <<>> /\ earlier.fetched.ok
                     THEN earlier.fetched ELSE delivery
       IN  calls' = [calls EXCEPT ![c] =
                       [@ EXCEPT !.pc = "done", !.fetched = delivery,
                                 !.outcome = AfterFetch(calls[c].method, calls[c].params, cached, clock),
                                 !.among = InFlight]]
  /\ UNCHANGED <<earlier, callVars, clock, dateVars>>

\* the request of call c settles and its handler runs to its end; `among`
\* records the calls that were suspended at that moment (history)
Resume(c) ==
  /\ calls[c].pc = "fetching"
  /\ \E delivery \in ConcurrentDeliveries(calls[c].method) :
       calls' = [calls EXCEPT ![c] =
                   [@ EXCEPT !.pc = "done", !.fetched = delivery,
                             !.outcome = AfterFetch(calls[c].method, calls[c].params, delivery, clock),
                             !.among = InFlight]]
  /\ UNCHANGED <<earlier, callVars, clock, dateVars>>

\* the caller takes the response of call c; its locals are dropped
Return(c) ==
  /\ calls[c].pc = "done"
  /\ earlier' = calls[c]
  /\ calls' = [calls EXCEPT ![c] = NoCall]
  /\ UNCHANGED <<callVars, clock, dateVars>>

NextConcurrent ==
  \/ \E c \in 1..MaxCalls : \E m \in ConcurrentMethods : \E p \in ConcurrentBags(m) : Begin(c, m, p)
  \/ \E c \in 1..MaxCalls : Resume(c)
  \/ \E c \in 1..MaxCalls : Return(c)

SpecConcurrent == Init /\ [][NextConcurrent]_vars

(***************************************************************************)
(* parseEmaDate called on its own (no handler calls it)                    *)
(***************************************************************************)
\* the tokens and separators the texts are put together from
DayTokens == {<<"1","5">>, <<"1">>, <<"3">>, <<"1","2","3">>, <<"x","x">>, <<"1","\t","5">>}
MonthTokens ==
  DOMAIN months \cup {<<"M","a","r","c","h","h">>, <<"m","a","r","c","h">>, <<"M","A","R","C","H">>, <<"M","a","r">>, <<"c","o","n","s","t","r","u","c","t","o","r">>, <<>>}
YearTokens == {<<"2","0","2","4">>, <<"y","y","y","y">>}
Separators == {<<" ">>, <<" ", " ">>, <<"\t">>}
Margins == {<<>>, <<" ">>}

\* what parseEmaDate is called with: texts of three tokens, texts of other
\* token counts, and values that are not texts
DateInputs ==
  {Str(lead \o d \o s1 \o m \o s2 \o y \o lead) :
     d \in DayTokens, m \in MonthTokens, y \in YearTokens, s1 \in Separators, s2 \in Separators,
     lead \in Margins}
  \cup {Str(<<>>), Str(<<" ">>), Str(<<"g","a","r","b","a","g","e">>), Str(<<"M","a","r","c","h"," ","2","0","2","4">>),
        Str(<<"1","5"," ","M","a","r","c","h"," ","2","0","2","4"," ","x">>), Null, Undefined, Num(0), Num(20240315), Bool(TRUE)}

InitDate ==
  /\ pc = "idle"
  /\ tool = ""
  /\ method = ""
  /\ params = <<>>
  /\ requests = <<>>
  /\ fetched = NoDelivery
  /\ outcome = NoOutcome
  /\ response = NoResponse
  /\ clock = CurrentYear
  /\ calls = NoCalls
  /\ earlier = NoCall
  /\ emaDate \in DateInputs
  /\ parsed = NotParsed

\* parseEmaDate is called and returns
ParseDate ==
  /\ parsed = NotParsed
  /\ parsed' = parseEmaDate(emaDate)
  /\ UNCHANGED <<emaDate, callVars, clock, concurrentVars>>

NextDate == ParseDate

SpecDate == InitDate /\ [][NextDate]_vars

(***************************************************************************)
(* Vocabulary of the properties                                            *)
(***************************************************************************)
\* the call has ended with an envelope
ReturnedEnvelope == pc = "done" /\ method \in ListMethods /\ ~outcome.threw

\* the call has ended with an error thrown before anything was requested
Rejected == pc = "done" /\ outcome.threw /\ requests = <<>>

\* the collection the call worked on: the fetched one, or the empty one of
\* a handler without endpoint
Collection ==
  IF method \in StubMethods THEN <<>>
  ELSE IF method \in DocumentMethods THEN fetched.body.data.items
  ELSE fetched.body.items

\* the default limit the specification gives each dataset
DefaultLimit(m) ==
  IF m \in {"search_medicines", "get_orphan_designations", "get_psusas", "get_pips"}
            \cup DocumentMethods
  THEN 100 ELSE 50

\* the limit the specification makes effective: the supplied one when one
\* is given, the default of the dataset otherwise
EffectiveLimit(m, p) == IF Supplied(p, "limit") THEN p["limit"].v ELSE DefaultLimit(m)

\* the records of `all` the filter chain of handler m keeps under bag p
Matching(m, p, all) ==
  CASE m = "search_medicines" -> searchMedicinesFilter(p, all)
    [] m = "get_orphan_designations" -> getOrphanDesignationsFilter(p, all)
    [] m = "get_supply_shortages" -> getSupplyShortagesFilter(p, all)
    [] m = "get_referrals" -> getReferralsFilter(p, all)
    [] m = "get_post_auth_procedures" -> getPostAuthProceduresFilter(p, all)
    [] m = "get_dhpcs" -> getDhpcsFilter(p, all)
    [] m = "get_psusas" -> getPsusasFilter(p, all)
    [] m = "get_pips" -> getPipsFilter(p, all)
    [] m = "get_herbal_medicines" -> getHerbalMedicinesFilter(p, all)
    [] m = "get_article58_medicines" -> getArticle58MedicinesFilter(p, all)
    [] m = "search_epar_documents" -> searchEparDocumentsFilter(p, all)
    [] m = "search_all_documents" -> searchAllDocumentsFilter(p, all)
    [] m = "search_non_epar_documents" -> searchNonEparDocumentsFilter(p, all)

\* a limit, a year, a status, a safety flag or a name the specification
\* calls malformed
IsNumberIn(val, lo, hi) == TypeOf(val) = "number" /\ lo <= val.v /\ val.v <= hi

MalformedLimit(p) == Supplied(p, "limit") /\ ~IsNumberIn(p["limit"], 1, 10000)

YearMethods == {"get_orphan_designations", "get_referrals", "get_dhpcs", "get_pips"}

MalformedYear(m, p, now) ==
  m \in YearMethods /\ Supplied(p, "year") /\ ~IsNumberIn(p["year"], 1995, now + 1)

MalformedStatus(m, p) ==
  /\ Supplied(p, "status")
  /\ \/ m = "search_medicines"
        /\ p["status"] \notin {Str(Authorised), Str(Withdrawn), Str(Refused), Str(Suspended)}
     \/ m = "get_orphan_designations"
        /\ p["status"] \notin {Str(Positive), Str(Negative), Str(Withdrawn)}
     \/ m = "get_supply_shortages"
        /\ ToLowerCase(p["status"].v) \notin {ongoing, resolved}

MalformedSafety(m, p) ==
  m = "get_referrals" /\ Supplied(p, "safety") /\ TypeOf(p["safety"]) # "boolean"

MalformedName(m, p) ==
  m = "get_medicine_by_name"
  /\ (~Supplied(p, "name") \/ TypeOf(p["name"]) # "string" \/ Trim(p["name"].v) = <<>>)

Malformed(m, p, now) ==
  \/ m # "get_medicine_by_name" /\ MalformedLimit(p)
  \/ MalformedYear(m, p, now)
  \/ MalformedStatus(m, p)
  \/ MalformedSafety(m, p)
  \/ MalformedName(m, p)

(***************************************************************************)
(* C1..C10                                                                 *)
(***************************************************************************)

\* C1: in the envelope every list-returning handler returns, total_count
\* is the length of results, the slice left after filtering and limiting.
C1_TotalCountIsLength ==
  ReturnedEnvelope => outcome.value.total_count = Len(outcome.value.results)

\* C1 witness: an envelope whose results are fewer than the records that
\* passed the filters, themselves fewer than the records fetched.
C1_Witness ==
  /\ ReturnedEnvelope
  /\ method \notin StubMethods
  /\ outcome.value.total_count > 0
  /\ outcome.value.total_count < Len(Matching(method, params, Collection))
  /\ Len(Matching(method, params, Collection)) < Len(Collection)

\* C2: the results of a successful call are never more than the effective
\* limit: the supplied limit when one is given, the default otherwise.
C2_ResultsWithinEffectiveLimit ==
  ReturnedEnvelope => Len(outcome.value.results) <= EffectiveLimit(method, params)

\* C3: a call with a malformed recognized parameter ends in a validation
\* error, and no request is issued at any point of it.
C3_MalformedRejectedBeforeFetch ==
  (pc # "idle" /\ Malformed(method, params, clock)) => Rejected

\* C4: limit = 10000 is accepted; limit = 10001 and limit = 0 are rejected
\* with the validation error and no envelope is returned for them.
C4_LimitBoundary ==
  (pc # "idle" /\ method # "get_medicine_by_name" /\ Supplied(params, "limit")) =>
    /\ params["limit"] = Num(10000) => ~(pc = "done" /\ outcome = Thrown(LimitError))
    /\ params["limit"] \in {Num(10001), Num(0)} => (Rejected /\ outcome = Thrown(LimitError))

\* C5: a year outside 1995 .. currentYear + 1 is rejected with a validation
\* error; 1995 and currentYear + 1 are not rejected for their year.
C5_YearBoundary ==
  (pc # "idle" /\ method \in YearMethods /\ Supplied(params, "year")) =>
    /\ params["year"] \in {Num(1995), Num(clock + 1)}
         => ~(pc = "done" /\ outcome = Thrown(YearError(clock)))
    /\ (TypeOf(params["year"]) = "number" /\ ~IsNumberIn(params["year"], 1995, clock + 1))
         => Rejected

\* C6: with no filter parameter supplied, the results are the first
\* min(limit, collectionSize) records of the collection, in its order.
C6_NoFilterGivesPrefix ==
  (ReturnedEnvelope /\ DOMAIN params \subseteq {"limit"}) =>
    LET limit == EffectiveLimit(method, params)
        size == IF limit < Len(Collection) THEN limit ELSE Len(Collection)
    IN  outcome.value.results = SubSeq(Collection, 1, size)

\* C7: the results are the first effective_limit records, in upstream
\* order, of the records that satisfy every supplied filter.
C7_FilteredThenTruncated ==
  ReturnedEnvelope =>
    LET matching == Matching(method, params, Collection)
        limit == EffectiveLimit(method, params)
        size == IF limit < Len(matching) THEN limit ELSE Len(matching)
    IN  outcome.value.results = SubSeq(matching, 1, size)

\* what handler m makes of bag p when the transport settles its request,
\* if it issues one, with `delivery`
Run(m, p, delivery, now) ==
  IF Validate(m, p, now) # Valid THEN Thrown(Validate(m, p, now))
  ELSE IF m \in StubMethods THEN WithoutFetch(m, p, now)
  ELSE AfterFetch(m, p, delivery, now)

\* the records a result carries
RecordsOf(m, o) ==
  IF m = "get_medicine_by_name"
  THEN IF o.value.found THEN <<o.value.medicine>> ELSE <<>>
  ELSE o.value.results

\* the parameters of a handler that are matched as text, ignoring case
TextFilters(m) ==
  CASE m = "search_medicines" -> {"active_substance", "therapeutic_area"}
    [] m = "get_medicine_by_name" -> {"name"}
    [] m = "get_orphan_designations" -> {"therapeutic_area", "active_substance"}
    [] m = "get_supply_shortages" -> {"active_substance", "medicine_name", "therapeutic_area"}
    [] m = "get_referrals" -> {"active_substance", "status"}
    [] m = "get_post_auth_procedures" -> {"medicine_name"}
    [] m = "get_dhpcs" -> {"medicine_name", "active_substance", "dhpc_type"}
    [] m = "get_psusas" -> {"active_substance", "regulatory_outcome"}
    [] m = "get_pips" -> {"active_substance", "therapeutic_area", "decision_type"}
    [] m = "get_herbal_medicines" -> {"substance", "therapeutic_area"}
    [] m = "get_article58_medicines" -> {"active_substance", "medicine_name"}
    [] m = "search_epar_documents" -> {"medicine_name", "document_type", "language"}
    [] m = "search_all_documents" -> {"search_term", "document_type", "category"}
    [] m = "search_non_epar_documents" -> {"search_term", "document_type"}

\* the upper-case form of a character
UpperOf ==
  [c \in {LowerChars[i] : i \in DOMAIN LowerChars} |->
     UpperChars[CHOOSE i \in DOMAIN LowerChars : LowerChars[i] = c]]

UpperChar(c) == IF c \in DOMAIN UpperOf THEN UpperOf[c] ELSE c

\* the strings that differ from s in letter case only
CaseVariants(str) ==
  {t \in [1..Len(str) -> UNION {{LowerChar(str[i]), UpperChar(str[i])} : i \in 1..Len(str)}] :
     \A i \in 1..Len(str) : LowerChar(t[i]) = LowerChar(str[i])}

\* C8: text filters ignore letter case: the call with a text filter value
\* respelled in another letter case returns the same records, in the same
\* order, on the same collection.
C8_TextFiltersIgnoreCase ==
  (pc = "done" /\ method \in Methods /\ ~outcome.threw) =>
    \A name \in TextFilters(method) \cap DOMAIN params :
      \A respelled \in CaseVariants(params[name].v) :
        LET other == Run(method, [params EXCEPT ![name] = Str(respelled)], fetched, clock)
        IN  ~other.threw /\ RecordsOf(method, other) = RecordsOf(method, outcome)

\* C8 witness: a list call with a text filter spelled in both cases that
\* kept some records of the collection and dropped others.
C8_Witness ==
  /\ ReturnedEnvelope
  /\ \E name \in TextFilters(method) \cap DOMAIN params :
       /\ ToLowerCase(params[name].v) # params[name].v
       /\ \E i \in 1..Len(params[name].v) : LowerChar(params[name].v[i]) = params[name].v[i]
  /\ outcome.value.results # <<>>
  /\ Len(outcome.value.results) < Len(Collection)

\* a record whose name_of_medicine contains the term, ignoring case
NameContains(r, term) ==
  "name_of_medicine" \in DOMAIN r /\ Includes(ToLowerCase(r["name_of_medicine"]), ToLowerCase(term))

\* the lookup got a name that is a string, not empty once trimmed, and the
\* medicines collection
LookupServed ==
  /\ pc = "done"
  /\ method = "get_medicine_by_name"
  /\ ~MalformedName(method, params)
  /\ fetched.ok
  /\ fetched.body.shape = "array"

Fetcher(m, delivery) ==
  IF m \in DocumentMethods THEN makeEmaDocumentRequest(delivery) ELSE makeEmaRequest(delivery)

\* the call of a known method has ended
CallEnded == pc = "done" /\ tool = "ema_info" /\ method \in Methods

\* the call has ended and its fetch had failed
FetchFailed == CallEnded /\ requests # <<>> /\ Fetcher(method, fetched).threw

\* a result with every field of its shape
CompleteResult(m, value) ==
  IF m = "get_medicine_by_name"
  THEN IF value.found
       THEN DOMAIN value = {"found", "medicine", "source", "source_url", "last_updated"}
       ELSE DOMAIN value = {"found", "message", "source", "source_url"}
  ELSE /\ DOMAIN value = {"total_count", "results", "source", "source_url", "last_updated"}
       /\ value.total_count = Len(value.results)

\* C11: a handler call ends either with a complete result or with one
\* error, never both; when the fetch fails nothing is returned and the
\* error thrown is the one the request function threw, unchanged.
C11_ResultOrFetcherError ==
  CallEnded =>
    /\ IF outcome.threw THEN DOMAIN outcome = {"threw", "message"}
       ELSE DOMAIN outcome = {"threw", "value"} /\ CompleteResult(method, outcome.value)
    /\ FetchFailed => outcome = Fetcher(method, fetched)

\* C11 witness: a list call whose request was answered with an HTTP error
\* and that ended with the error of the request function.
C11_Witness ==
  /\ FetchFailed
  /\ method = "get_supply_shortages"
  /\ ~fetched.ok
  /\ fetched.response
  /\ outcome.threw
  /\ outcome.message[1] = "EMA API HTTP error "

(***************************************************************************)
(* Responses of the tool                                                   *)
(***************************************************************************)
\* a request to ema_info has been answered
Answered == pc = "done" /\ tool = "ema_info"

\* the failure raised during the call, if any: the unknown method, the
\* rejected parameter, or the failed fetch
FailureRaised ==
  IF method \in UnknownMethods THEN <<UnknownMethodError(method)>>
  ELSE IF Validate(method, params, clock) # Valid THEN <<Validate(method, params, clock)>>
  ELSE IF method \notin StubMethods /\ Fetcher(method, fetched).threw
       THEN <<Fetcher(method, fetched).message>>
  ELSE <<>>

\* the payload carried by the text of a response
Payload(resp) == resp.content[1].text.json

\* the response is an error response that carries the message
IsErrorResponseFor(resp, message) ==
  /\ DOMAIN resp = {"content", "isError"}
  /\ resp.isError
  /\ Len(resp.content) = 1
  /\ resp.content[1].type = "text"
  /\ Payload(resp) = [error |-> message, source |-> "EMA MCP Server"]

SourceLabel(m) ==
  CASE m \in {"search_medicines", "get_medicine_by_name"} -> "EMA Medicines Database"
    [] m = "get_orphan_designations" -> "EMA Orphan Designations"
    [] m = "get_supply_shortages" -> "EMA Medicine Supply Shortages"
    [] m = "get_referrals" -> "EMA Referrals"
    [] m = "get_post_auth_procedures" -> "EMA Post-Authorization Procedures"
    [] m = "get_dhpcs" -> "EMA Direct Healthcare Professional Communications"
    [] m = "get_psusas" -> "EMA Periodic Safety Update Reports"
    [] m = "get_pips" -> "EMA Paediatric Investigation Plans"
    [] m = "get_herbal_medicines" ->
         "EMA Herbal Medicines (placeholder - no JSON endpoint available)"
    [] m = "get_article58_medicines" ->
         "EMA Medicines for Use Outside EU - Article 58 (placeholder - no JSON endpoint available)"
    [] m = "search_epar_documents" -> "EMA EPAR Documents"
    [] m = "search_all_documents" -> "EMA All Documents"
    [] m = "search_non_epar_documents" -> "EMA Non-EPAR Documents"

\* the response is a success response whose text is the JSON of value
IsResultResponseFor(resp, value) ==
  /\ DOMAIN resp = {"content"}
  /\ Len(resp.content) = 1
  /\ resp.content[1].type = "text"
  /\ Payload(resp) = value

\* C13: each of the 14 method names is answered by its own handler, whose
\* result is returned as the text of the response; any other method name
\* is answered with the unknown-method error, and neither a handler nor
\* a request is reached.
C13_MethodsRouted ==
  Answered =>
    IF method \in Methods
    THEN /\ method \notin StubMethods /\ Validate(method, params, clock) = Valid
            => requests = <<generateEmaUrl(Endpoint(method))>>
         /\ ~outcome.threw =>
              /\ IsResultResponseFor(response, outcome.value)
              /\ Payload(response).source = SourceLabel(method)
              /\ IF method = "get_medicine_by_name"
                 THEN "found" \in DOMAIN Payload(response)
                 ELSE "total_count" \in DOMAIN Payload(response)
    ELSE /\ outcome = Thrown(<<"Unknown method: ", method>>)
         /\ IsErrorResponseFor(response, <<"Unknown method: ", method>>)
         /\ requests = <<>>
         /\ fetched = NoDelivery

\* C13 witness: get_dhpcs answered with the envelope of the DHPC handler.
C13_Witness ==
  /\ Answered
  /\ method = "get_dhpcs"
  /\ IsResultResponseFor(response, outcome.value)
  /\ Payload(response).source = "EMA Direct Healthcare Professional Communications"
  /\ Payload(response).total_count > 0

\* C13 witness of the other case: a method name that differs from a known
\* one in letter case only, answered as unknown.
C13_UnknownWitness ==
  /\ Answered
  /\ method = "SEARCH_MEDICINES"
  /\ response.isError
  /\ requests = <<>>

(***************************************************************************)
(* get_supply_shortages: status                                            *)
(***************************************************************************)
StatusError == <<"status must be one of: Ongoing, Resolved (case-insensitive)">>

\* a call of get_supply_shortages with a non-empty status text and no
\* limit that is rejected first
ShortagesWithStatus ==
  /\ pc # "idle"
  /\ method = "get_supply_shortages"
  /\ Truthy(params, "status")
  /\ TypeOf(params["status"]) = "string"
  /\ ~LimitInvalid(params)

\* the status is "Ongoing" or "Resolved" in some letter case
SpellsShortageStatus(text) == ToLowerCase(text) \in {ongoing, resolved}

\* C14: get_supply_shortages accepts every letter-case spelling of
\* "Ongoing" and "Resolved" as status, and rejects every other non-empty
\* status with the validation error before any request.
C14_StatusValidatedIgnoringCase ==
  ShortagesWithStatus =>
    IF SpellsShortageStatus(params["status"].v)
    THEN ~(pc = "done" /\ outcome = Thrown(StatusError))
    ELSE Rejected /\ outcome = Thrown(StatusError)

\* a call of get_supply_shortages that returned an envelope and whose
\* status is one of the spellings the validation lets pass
ShortagesByStatus ==
  /\ ReturnedEnvelope
  /\ method = "get_supply_shortages"
  /\ Truthy(params, "status")

\* C15: get_supply_shortages with an accepted status returns only records
\* whose supply_shortage_status is present and equals the status, letter
\* case ignored; with "ongoing" none that is resolved or has no status.
C15_ShortagesOnlyOfStatus ==
  ShortagesByStatus =>
    \A i \in 1..Len(outcome.value.results) :
      LET r == outcome.value.results[i]
      IN  /\ "supply_shortage_status" \in DOMAIN r
          /\ ToLowerCase(r["supply_shortage_status"]) = ToLowerCase(params["status"].v)
          /\ ToLowerCase(params["status"].v) = ongoing
               => ToLowerCase(r["supply_shortage_status"]) # resolved

\* C15 witness: status "resolved" in lower case on a collection that holds
\* a "Resolved" record, which is returned, and other records, which are not.
C15_Witness ==
  /\ ShortagesByStatus
  /\ params["status"].v = resolved
  /\ outcome.value.results # <<>>
  /\ outcome.value.results[1]["supply_shortage_status"] = Resolved
  /\ \E i \in 1..Len(Collection) : "supply_shortage_status" \notin DOMAIN Collection[i]
  /\ \E i \in 1..Len(Collection) :
       /\ "supply_shortage_status" \in DOMAIN Collection[i]
       /\ Collection[i]["supply_shortage_status"] = Ongoing

(***************************************************************************)
(* get_referrals: safety                                                   *)
(***************************************************************************)
\* the rows of the records of a sequence
Rows(seq) == [i \in 1..Len(seq) |-> seq[i]["row"]]

\* a collection with the field f taken out of every record
WithoutField(all, f) ==
  [i \in 1..Len(all) |-> [g \in DOMAIN all[i] \ {f} |-> all[i][g]]]

\* the safety parameter of the call is the boolean b
SafetyIs(b) == Supplied(params, "safety") /\ params["safety"] = Bool(b)

\* C16: get_referrals with safety = true returns only records whose
\* safety_referral is "Si" (with grave accent) or "Yes", with safety =
\* false only records whose safety_referral is "No"; without safety the
\* result does not depend on that field; a safety that is not a boolean
\* is rejected with a validation error before any request.
C16_SafetyFilter ==
  (pc # "idle" /\ method = "get_referrals") =>
    /\ (Supplied(params, "safety") /\ TypeOf(params["safety"]) # "boolean") => Rejected
    /\ ReturnedEnvelope =>
         /\ SafetyIs(TRUE) =>
              \A i \in 1..Len(outcome.value.results) :
                /\ "safety_referral" \in DOMAIN outcome.value.results[i]
                /\ outcome.value.results[i]["safety_referral"] \in {Si, Yes}
         /\ SafetyIs(FALSE) =>
              \A i \in 1..Len(outcome.value.results) :
                /\ "safety_referral" \in DOMAIN outcome.value.results[i]
                /\ outcome.value.results[i]["safety_referral"] = No
         /\ ~Supplied(params, "safety") =>
              Rows(outcome.value.results)
                = Rows(Slice(getReferralsFilter(params, WithoutField(Collection, "safety_referral")),
                             LimitOr(params, 50)))

\* C16 witness: safety = false on a collection that holds a "No" record,
\* which is returned, and a "Yes" record, which is not.
C16_Witness ==
  /\ ReturnedEnvelope
  /\ method = "get_referrals"
  /\ SafetyIs(FALSE)
  /\ outcome.value.results # <<>>
  /\ Len(outcome.value.results) < Len(Collection)
  /\ \E i \in 1..Len(Collection) :
       "safety_referral" \in DOMAIN Collection[i] /\ Collection[i]["safety_referral"] = Yes

(***************************************************************************)
(* get_post_auth_procedures: medicine_name                                 *)
(***************************************************************************)
\* a call of get_post_auth_procedures with a non-empty medicine_name that
\* returned an envelope
PostAuthByName ==
  /\ ReturnedEnvelope
  /\ method = "get_post_auth_procedures"
  /\ Truthy(params, "medicine_name")

\* C17: get_post_auth_procedures with medicine_name m returns only records
\* that have a name_of_medicine field which contains m.
C17_PostAuthNameContains ==
  PostAuthByName =>
    \A i \in 1..Len(outcome.value.results) :
      /\ "name_of_medicine" \in DOMAIN outcome.value.results[i]
      /\ Includes(outcome.value.results[i]["name_of_medicine"], params["medicine_name"].v)

(***************************************************************************)
(* Default limits                                                          *)
(***************************************************************************)
\* a list call without limit that returned an envelope
ReturnedWithoutLimit == ReturnedEnvelope /\ ~Supplied(params, "limit")

C18_WitnessHundred ==
  /\ ReturnedWithoutLimit
  /\ DefaultLimit(method) = 100
  /\ Len(Matching(method, params, Collection)) > 100
  /\ Len(outcome.value.results) = 100

(***************************************************************************)
(* The order of the filters                                                *)
(***************************************************************************)
\* the parameters the filter chain of handler m reads, in the order of its
\* `if` blocks
FilterNames(m) ==
  CASE m = "search_medicines" ->
         <<"active_substance", "therapeutic_area", "status", "orphan", "prime", "biosimilar", "conditional_approval">>
    [] m = "get_orphan_designations" ->
         <<"therapeutic_area", "active_substance", "year", "status">>
    [] m = "get_supply_shortages" ->
         <<"active_substance", "medicine_name", "therapeutic_area", "status">>
    [] m = "get_referrals" ->
         <<"safety", "active_substance", "status", "year">>
    [] m = "get_post_auth_procedures" ->
         <<"medicine_name">>
    [] m = "get_dhpcs" ->
         <<"medicine_name", "active_substance", "dhpc_type", "year">>
    [] m = "get_psusas" ->
         <<"active_substance", "regulatory_outcome">>
    [] m = "get_pips" ->
         <<"active_substance", "therapeutic_area", "decision_type", "year">>
    [] m = "get_herbal_medicines" ->
         <<"substance", "therapeutic_area">>
    [] m = "get_article58_medicines" ->
         <<"active_substance", "medicine_name">>
    [] m = "search_epar_documents" ->
         <<"medicine_name", "document_type", "language">>
    [] m = "search_all_documents" ->
         <<"search_term", "document_type", "category">>
    [] m = "search_non_epar_documents" ->
         <<"search_term", "document_type">>

\* the `if` block of handler m that reads params[name]
FilterStep(m, name, p, results) ==
  CASE m = "search_medicines" -> searchMedicinesFilterStep(name, p, results)
    [] m = "get_orphan_designations" -> getOrphanDesignationsFilterStep(name, p, results)
    [] m = "get_supply_shortages" -> getSupplyShortagesFilterStep(name, p, results)
    [] m = "get_referrals" -> getReferralsFilterStep(name, p, results)
    [] m = "get_post_auth_procedures" -> getPostAuthProceduresFilterStep(name, p, results)
    [] m = "get_dhpcs" -> getDhpcsFilterStep(name, p, results)
    [] m = "get_psusas" -> getPsusasFilterStep(name, p, results)
    [] m = "get_pips" -> getPipsFilterStep(name, p, results)
    [] m = "get_herbal_medicines" -> getHerbalMedicinesFilterStep(name, p, results)
    [] m = "get_article58_medicines" -> getArticle58MedicinesFilterStep(name, p, results)
    [] m = "search_epar_documents" -> searchEparDocumentsFilterStep(name, p, results)
    [] m = "search_all_documents" -> searchAllDocumentsFilterStep(name, p, results)
    [] m = "search_non_epar_documents" -> searchNonEparDocumentsFilterStep(name, p, results)

\* the filters of `order` applied one after the other to `results`
RECURSIVE ApplyInOrder(_, _, _, _)
ApplyInOrder(m, order, p, results) ==
  IF order = <<>> THEN results
  ELSE ApplyInOrder(m, Tail(order), p, FilterStep(m, Head(order), p, results))

\* every arrangement of the names of S in a sequence
Orderings(S) ==
  {order \in [1..Cardinality(S) -> S] : \A i, j \in 1..Cardinality(S) : order[i] = order[j] => i = j}

\* the filters of the dataset the call supplied, and the ones it omitted
AllFilters(m) == {FilterNames(m)[i] : i \in 1..Len(FilterNames(m))}
SuppliedFilters(m, p) == {name \in AllFilters(m) : Supplied(p, name)}
OmittedFilters(m, p) == AllFilters(m) \ SuppliedFilters(m, p)

\* C19: the filter chain is commutative: the supplied filters applied in any
\* order to the fetched collection give the sequence the handler's fixed
\* order gives, which truncated is the result returned, and an omitted
\* filter leaves every working set on the way unchanged.
C19_FiltersCommute ==
  ReturnedEnvelope =>
    \A order \in Orderings(SuppliedFilters(method, params)) :
      /\ ApplyInOrder(method, order, params, Collection) = Matching(method, params, Collection)
      /\ ApplyInOrder(method, FilterNames(method), params, Collection)
           = Matching(method, params, Collection)
      /\ outcome.value.results
           = Slice(ApplyInOrder(method, order, params, Collection),
                   LimitOr(params, DefaultLimit(method)))
      /\ \A k \in 0..Len(order) : \A name \in OmittedFilters(method, params) :
           LET working == ApplyInOrder(method, SubSeq(order, 1, k), params, Collection)
           IN  FilterStep(method, name, params, working) = working

\* C19 witness: a call with two filters that each drop a record the other
\* keeps, so that the two orders pass through different working sets.
C19_Witness ==
  /\ ReturnedEnvelope
  /\ \E a, b \in SuppliedFilters(method, params) :
       LET afterA == FilterStep(method, a, params, Collection)
           afterB == FilterStep(method, b, params, Collection)
       IN  /\ a # b
           /\ Len(afterA) < Len(Collection)
           /\ Len(afterB) < Len(Collection)
           /\ afterA # afterB
           /\ outcome.value.results # <<>>
           /\ outcome.value.results = FilterStep(method, b, params, afterA)

(***************************************************************************)
(* Responses of the wrong shape                                            *)
(***************************************************************************)
\* the kind of an error of the request functions.  The errors are plain
\* Error objects that differ in their message only: the kind is read from
\* the text the catch block, or the shape check, puts first.
ErrorKind(message) ==
  CASE Head(message) = "EMA API request timeout (30s exceeded)" -> "Timeout"
    [] Head(message) = "EMA API HTTP error " -> "HttpError"
    [] Head(message) = "EMA API network error: No response received" -> "NetworkError"
    [] Head(message) = "EMA API request failed: " -> "RequestError"
    [] Head(message) \in {"EMA API returned non-array response",
                          "EMA API document response missing data array"} -> "InvalidResponseShape"
    [] OTHER -> "Error"

\* the call has ended and its request was answered with a body that parsed
ParsedBodyFetched ==
  CallEnded /\ requests # <<>> /\ fetched.ok /\ fetched.body.shape # "malformed"

\* the parsed body has the shape the request function of handler m expects
RightShape(m, body) ==
  IF m \in DocumentMethods
  THEN body.shape = "object" /\ "data" \in DOMAIN body /\ body.data.shape = "array"
  ELSE body.shape = "array"

\* C20: a parsed body of the wrong shape (not an array for the plain
\* variant, no data field holding an array for the document variant, null
\* and non-object values included) makes the Fetcher fail with the kind
\* InvalidResponseShape, and of a body of the right shape the document
\* variant returns exactly the array under data.
C20_WrongShapeFailsAsInvalidResponseShape ==
  ParsedBodyFetched =>
    LET fetch == Fetcher(method, fetched)
    IN  IF RightShape(method, fetched.body)
        THEN /\ ~fetch.threw
             /\ method \in DocumentMethods => fetch.value = fetched.body.data.items
        ELSE /\ fetch.threw
             /\ ErrorKind(fetch.message) = "InvalidResponseShape"
             /\ ErrorKind(fetch.message) \notin {"Timeout", "HttpError", "NetworkError", "RequestError"}

(***************************************************************************)
(* Transport failures                                                      *)
(***************************************************************************)
\* the call has ended and axios.get had rejected
TransportFailed == CallEnded /\ requests # <<>> /\ ~fetched.ok

\* what the transport did, read from the error axios rejects with
TransportOutcome(error) ==
  IF error.code = "ECONNABORTED" THEN "timed out"
  ELSE IF error.response THEN "answered with an error status"
  ELSE IF error.request THEN "sent without answer"
  ELSE "not sent"

\* C21: a transport failure is mapped to exactly one failure kind, chosen
\* by the transport outcome: Timeout for the 30-second bound, HttpError
\* with the status and statusText received, NetworkError for a request sent
\* without answer, RequestError with the underlying detail otherwise.
C21_TransportFailureKinds ==
  TransportFailed =>
    /\ outcome.threw
    /\ LET kind == ErrorKind(outcome.message)
           what == TransportOutcome(fetched)
       IN  /\ kind \in {"Timeout", "HttpError", "NetworkError", "RequestError"}
           /\ kind = "Timeout" <=> fetched = TimeoutFailure
           /\ kind = "HttpError" <=> what = "answered with an error status"
           /\ kind = "HttpError" =>
                outcome.message = <<"EMA API HTTP error ", fetched.status, ": ", fetched.statusText>>
           /\ kind = "NetworkError" <=> fetched = NetworkFailure
           /\ kind = "RequestError" <=> fetched = SetupFailure
           /\ kind = "RequestError" => outcome.message[2] = fetched.message

\* C21 witness: a request answered 404 Not Found ended as the HttpError
\* that carries both.
C21_Witness ==
  /\ TransportFailed
  /\ fetched = HttpFailure("404", "Not Found")
  /\ outcome = Thrown(<<"EMA API HTTP error ", "404", ": ", "Not Found">>)

(***************************************************************************)
(* One request per call                                                    *)
(***************************************************************************)
\* C22: no retry: a call issues at most one GET, and when its request has
\* settled the call ends in the same step without a further request; a
\* failed fetch ends it with the error of the fetch.
C22_NoRetry ==
  [][/\ Len(requests') <= 1
     /\ pc = "fetching" =>
          /\ pc' = "done"
          /\ requests' = requests
          /\ Fetcher(method, fetched').threw =>
               /\ outcome' = Fetcher(method, fetched')
               /\ response' = ErrorResponse(outcome'.message)]_vars

\* C22 witness: a call ended with the error of its one request, which had
\* been rejected.
C22_Witness ==
  /\ CallEnded
  /\ Len(requests) = 1
  /\ ~fetched.ok
  /\ outcome = Fetcher(method, fetched)
  /\ outcome.threw

(***************************************************************************)
(* Calls one after the other and side by side                              *)
(***************************************************************************)
\* the records of the collection a call fetched
OwnRecords(call) ==
  LET all == IF call.method \in DocumentMethods THEN call.fetched.body.data.items
             ELSE call.fetched.body.items
  IN  {all[i] : i \in 1..Len(all)}

\* the records a call returned
ReturnedRecords(call) ==
  IF call.method = "get_medicine_by_name"
  THEN IF call.outcome.value.found THEN {call.outcome.value.medicine} ELSE {}
  ELSE {call.outcome.value.results[i] : i \in 1..Len(call.outcome.value.results)}

\* a call that has ended after a request, and one that ended with a result
EndedAfterRequest(call) == call.pc = "done" /\ call.requests # <<>>
EndedWithRecords(call) == EndedAfterRequest(call) /\ ~call.outcome.threw

\* C23: no cross-call cache: a call of a handler with an endpoint that
\* passes validation issues its own request, whatever was called before,
\* and what it returns is computed from the collection that request
\* delivered: every record returned is a record of that collection.
C23_NoCrossCallCache ==
  \A c \in 1..MaxCalls :
    LET call == calls[c]
    IN  /\ (/\ call.pc # "idle"
            /\ call.method \notin StubMethods
            /\ Validate(call.method, call.params, clock) = Valid)
             => call.requests = <<generateEmaUrl(Endpoint(call.method))>>
        /\ EndedAfterRequest(call) =>
             call.outcome = AfterFetch(call.method, call.params, call.fetched, clock)
        /\ EndedWithRecords(call) => ReturnedRecords(call) \subseteq OwnRecords(call)

\* C23 witness: a call that follows a call of the same method with the same
\* parameters, was delivered another collection, and returned records of
\* its own collection while the earlier call had returned a record that is
\* not in it.
C23_Witness ==
  \E c \in 1..MaxCalls :
    LET call == calls[c]
    IN  /\ EndedWithRecords(call)
        /\ earlier.pc = "done"
        /\ EndedWithRecords(earlier)
        /\ earlier.method = call.method
        /\ earlier.params = call.params
        /\ earlier.fetched # call.fetched
        /\ ReturnedRecords(call) # {}
        /\ ReturnedRecords(call) \subseteq OwnRecords(call)
        /\ ~(ReturnedRecords(earlier) \subseteq OwnRecords(call))

\* the outcome of a call run alone with the parameters and the delivery of
\* call c
Alone(call) ==
  IF Validate(call.method, call.params, clock) # Valid
  THEN Thrown(Validate(call.method, call.params, clock))
  ELSE IF call.method \in StubMethods THEN WithoutFetch(call.method, call.params, clock)
  ELSE AfterFetch(call.method, call.params, call.fetched, clock)

\* C24: calls in flight together do not interfere: whatever the
\* interleaving, the outcome of a call is the one it has when run alone
\* with the same parameters and the same delivery, and a step of one call
\* changes nothing of another call.
C24_ConcurrentCallsIndependent ==
  [][\A c \in 1..MaxCalls :
       /\ calls'[c].pc = "done" => calls'[c].outcome = Alone(calls'[c])
       /\ calls'[c] # calls[c] => \A d \in 1..MaxCalls \ {c} : calls'[d] = calls[d]]_vars

\* C24 witness: two calls of the same handler that were suspended at their
\* requests together and ended with different results.
C24_Witness ==
  \E c, d \in 1..MaxCalls :
    /\ c # d
    /\ EndedWithRecords(calls[c])
    /\ EndedWithRecords(calls[d])
    /\ calls[c].method = calls[d].method
    /\ {c, d} \subseteq calls[c].among
    /\ calls[c].outcome # calls[d].outcome
    /\ calls[c].outcome = Alone(calls[c])
    /\ calls[d].outcome = Alone(calls[d])

(***************************************************************************)
(* Suspension and completion                                               *)
(***************************************************************************)
\* the step in which a call of a known method begins and passes validation
BeginsValid ==
  /\ pc = "idle"
  /\ tool' = "ema_info"
  /\ method' \in Methods
  /\ Validate(method', params', clock) = Valid

\* the call has ended with a result or with an error
Completed == pc = "done" /\ outcome # NoOutcome /\ response # NoResponse

FixedUrl(m) == <<"https://www.ema.europa.eu/en/documents/report", "/", Endpoint(m)>>

\* C26: the URL a handler requests, and the source_url it reports, is the
\* base URL joined with the endpoint of the handler, whatever the
\* parameter bag: it is a function of the method alone.  (A handler without
\* endpoint requests nothing and reports one fixed page.)
C26_UrlFixedPerHandler ==
  (pc # "idle" /\ tool = "ema_info" /\ method \in Methods) =>
    /\ requests \in (IF method \in StubMethods THEN {<<>>} ELSE {<<>>, <<FixedUrl(method)>>})
    /\ requests = <<>> <=> (method \in StubMethods \/ Validate(method, params, clock) # Valid)
    /\ (pc = "done" /\ ~outcome.threw) =>
         outcome.value.source_url
           = (IF method \in StubMethods
              THEN <<"https://www.ema.europa.eu/en/medicines/download-medicine-data">>
              ELSE requests[1])

\* C26 witness: a lookup whose name carries text has requested the URL of
\* the medicines endpoint and reports that URL.
C26_Witness ==
  /\ CallEnded
  /\ method = "get_medicine_by_name"
  /\ Supplied(params, "name")
  /\ params["name"] = Str(<<" ", "A", "B", " ">>)
  /\ requests = <<FixedUrl("search_medicines")>>
  /\ ~outcome.threw
  /\ outcome.value.source_url = FixedUrl("get_medicine_by_name")

(***************************************************************************)
(* Dates                                                                   *)
(***************************************************************************)
\* the tokens of a text: its maximal runs of characters that are not
\* white space
RECURSIVE Tokens(_)
Tokens(s) ==
  LET rest == TrimStart(s)
      gaps == {i \in 1..Len(rest) : rest[i] \in WhiteSpace}
      end == IF gaps = {} THEN Len(rest) ELSE (CHOOSE k \in gaps : \A j \in gaps : k <= j) - 1
  IN  IF rest = <<>> THEN <<>>
      ELSE <<SubSeq(rest, 1, end)>> \o Tokens(SubSeq(rest, end + 1, Len(rest)))

\* a token written in digits
IsNumeral(token) ==
  token # <<>> /\ \A i \in 1..Len(token) : \E d \in 1..10 : token[i] = Digits[d]

\* <year>-<month>-<day> with the day padded to two digits
IsoDate(day, month, year) ==
  Str(year \o <<"-">> \o months[month] \o <<"-">> \o (IF Len(day) < 2 THEN <<"0">> \o day ELSE day))

\* parseEmaDate has been called with a text and has returned
ParsedText == parsed # NotParsed /\ emaDate.t = "string"

\* C27: a text that splits on white space into a day, a full English month
\* name and a year is returned as <year>-<month>-<day>, the day padded to
\* two digits and the month taken from the table; a text of any other
\* number of tokens gives null.
C27_ThreeTokensGiveIsoDate ==
  ParsedText =>
    LET tokens == Tokens(emaDate.v)
    IN  /\ (/\ Len(tokens) = 3
            /\ IsNumeral(tokens[1])
            /\ tokens[2] \in DOMAIN months
            /\ IsNumeral(tokens[3]))
             => parsed = IsoDate(tokens[1], tokens[2], tokens[3])
        /\ Len(tokens) # 3 => parsed = Null

\* C28: parseEmaDate returns null for every malformed input: an empty,
\* null or non-text input, a text whose middle token is not one of the 12
\* month names as written in the table, and a text of three tokens whose
\* day or year is not a number.
C28_MalformedGivesNull ==
  parsed # NotParsed =>
    /\ parsed = Null \/ parsed.t = "string"
    /\ (emaDate.t # "string" \/ emaDate.v = <<>>) => parsed = Null
    /\ emaDate.t = "string" =>
         LET tokens == Tokens(emaDate.v)
         IN  /\ (Len(tokens) < 2 \/ tokens[2] \notin DOMAIN months) => parsed = Null
             /\ (Len(tokens) = 3 /\ ~(IsNumeral(tokens[1]) /\ IsNumeral(tokens[3]))) => parsed = Null

(***************************************************************************)
(* Flags of search_medicines                                               *)
(***************************************************************************)
\* the flags and the record field each of them is compared with
MedicineFlags == {"orphan", "prime", "biosimilar", "conditional_approval"}

FlagField(flag) ==
  CASE flag = "orphan" -> "orphan_medicine"
    [] flag = "prime" -> "prime_priority_medicine"
    [] flag = "biosimilar" -> "biosimilar"
    [] flag = "conditional_approval" -> "conditional_approval"

\* the bag p with the parameter `name` left out
Omitting(p, name) == [n \in DOMAIN p \ {name} |-> p[n]]

\* a search_medicines call has returned an envelope
MedicinesReturned == ReturnedEnvelope /\ method = "search_medicines"

\* C29: a flag of search_medicines narrows the results only when it is
\* true, to the records whose flag field is exactly "Yes"; a flag that is
\* false is a no-op: the call returns what the call without the flag
\* returns, and does not select the records whose flag field is "No".
C29_FalseFlagIsNoOp ==
  MedicinesReturned =>
    \A flag \in MedicineFlags :
      LET results == outcome.value.results
      IN  /\ (Supplied(params, flag) /\ params[flag] = Bool(TRUE)) =>
               \A i \in 1..Len(results) :
                 /\ FlagField(flag) \in DOMAIN results[i]
                 /\ results[i][FlagField(flag)] = <<"Y", "e", "s">>
          /\ (Supplied(params, flag) /\ params[flag] = Bool(FALSE)) =>
               outcome = searchMedicines(Omitting(params, flag), fetched, clock)

\* C29 witness: a call with a flag set to false returned a record whose
\* flag field is "Yes" next to one whose flag field is "No".
C29_Witness ==
  /\ MedicinesReturned
  /\ \E flag \in MedicineFlags :
       /\ Supplied(params, flag)
       /\ params[flag] = Bool(FALSE)
       /\ \E i, j \in 1..Len(outcome.value.results) :
            /\ FieldIs(outcome.value.results[i], FlagField(flag), Yes)
            /\ FieldIs(outcome.value.results[j], FlagField(flag), No)

(***************************************************************************)
(* The record get_medicine_by_name returns                                 *)
(***************************************************************************)
\* a get_medicine_by_name call has ended
LookupEnded == CallEnded /\ method = "get_medicine_by_name"

\* the name is missing, is not a string, or is empty once trimmed
NameUnusable(p) ==
  \/ ~Supplied(p, "name")
  \/ p["name"].t # "string"
  \/ Trim(p["name"].v) = <<>>

\* the places of the records of `all` with a name that is not empty and
\* contains the term, ignoring case
MatchingPlaces(all, term) ==
  {i \in 1..Len(all) : /\ "name_of_medicine" \in DOMAIN all[i]
                       /\ all[i]["name_of_medicine"] # <<>>
                       /\ NameContains(all[i], term)}

\* C30: get_medicine_by_name returns the first record, in upstream order,
\* whose name_of_medicine contains the trimmed name ignoring case, whether
\* or not a later record matches as well or better; it never returns a
\* record without a name; and a name that is missing, not a string or
\* empty once trimmed is rejected before any fetch.
C30_FirstMatchInUpstreamOrder ==
  LookupEnded =>
    IF NameUnusable(params)
    THEN outcome.threw /\ requests = <<>> /\ fetched = NoDelivery
    ELSE /\ Len(requests) = 1
         /\ (fetched.ok /\ fetched.body.shape = "array") =>
              LET all == fetched.body.items
                  places == MatchingPlaces(all, Trim(params["name"].v))
              IN  /\ ~outcome.threw
                  /\ outcome.value.found <=> places # {}
                  /\ outcome.value.found =>
                       /\ outcome.value.medicine = all[CHOOSE i \in places : \A j \in places : i <= j]
                       /\ "name_of_medicine" \in DOMAIN outcome.value.medicine
                       /\ outcome.value.medicine["name_of_medicine"] # <<>>

\* C30 witness: of two records with different names that both match, the
\* earlier one was returned, and its name is longer than the term.
C30_Witness ==
  /\ LookupEnded
  /\ ~NameUnusable(params)
  /\ fetched.ok
  /\ fetched.body.shape = "array"
  /\ ~outcome.threw
  /\ outcome.value.found
  /\ LET all == fetched.body.items
         places == MatchingPlaces(all, Trim(params["name"].v))
     IN  /\ Cardinality(places) >= 2
         /\ \E i, j \in places : all[i]["name_of_medicine"] # all[j]["name_of_medicine"]
         /\ \E i \in places : outcome.value.medicine # all[i]
         /\ \A i \in places : outcome.value.medicine["row"] <= all[i]["row"]
         /\ Len(outcome.value.medicine["name_of_medicine"]) > Len(Trim(params["name"].v))

====
